---- MODULE Spec2Model ----
(***************************************************************************)
(* relayd: the privilege-separated supervisor (parent), its configuration  *)
(* fan-out / fan-in (parent_configure, parent_reload,                      *)
(* parent_configure_done) and the CA key-operation RPC (ca_dispatch_relay, *)
(* rsae_send_imsg), modelled from src/src/usr.sbin/relayd/ca.c.            *)
(***************************************************************************)
EXTENDS Integers, Sequences, FiniteSets, TLC

(***************************************************************************)
(* Bounds of the model.                                                    *)
(***************************************************************************)
\* number of reload / reset / shutdown requests the environment issues
MaxRequests == 1
\* number of private-key operations the TLS library asks of the relays
MaxKeyOps == 2

\* env->sc_prefork_relay: relay and CA instances forked by main()
sc_prefork_relay == 1

(***************************************************************************)
(* Processes.  privsep_procid in enum order; the parent loops over         *)
(* id = 0 .. PROC_MAX-1 and skips itself.                                  *)
(***************************************************************************)
ProcIds == <<"PROC_PARENT", "PROC_HCE", "PROC_RELAY", "PROC_PFE", "PROC_CA">>

privsep_process == "PROC_PARENT"

Instances(id) ==
    IF id \in {"PROC_RELAY", "PROC_CA"} THEN 0 .. (sc_prefork_relay - 1) ELSE {0}

Workers ==
    UNION { { <<ProcIds[k], n>> : n \in Instances(ProcIds[k]) } :
            k \in { j \in 1 .. Len(ProcIds) : ProcIds[j] # privsep_process } }

Relays == 0 .. (sc_prefork_relay - 1)

(***************************************************************************)
(* Reset scopes (CONFIG_* bits) and the categories each role keeps.        *)
(***************************************************************************)
CONFIG_ALL == {"TABLES", "RDRS", "RELAYS", "PROTOS"}

CONFIG_RELOAD == {"RELOAD"}

ps_what(id) ==
    CASE id = "PROC_PARENT" -> CONFIG_ALL
      [] id = "PROC_PFE"    -> CONFIG_ALL \ {"PROTOS"}
      [] id = "PROC_HCE"    -> {"TABLES"}
      [] id = "PROC_CA"     -> {"RELAYS"}
      [] id = "PROC_RELAY"  -> {"TABLES", "RELAYS", "PROTOS"}

(***************************************************************************)
(* Configuration files the parser may be given.  A relay entry carries its *)
(* flags, its key ids and, in the parent and the CA only, the PEM bytes of *)
(* its private keys (a PEM tag byte followed by the private exponent).     *)
(* Data bytes on the wire are 0 .. 3; key bytes are outside that range.    *)
(***************************************************************************)
DataBytes == 0 .. 3

RelaySsl ==
    [id |-> 1, flags |-> {"F_SSL"},
     ssl_key |-> <<9, 5>>, ssl_key_len |-> 2, ssl_keyid |-> 1,
     ssl_cakey |-> <<>>, ssl_cakey_len |-> 0, ssl_cakeyid |-> 0,
     ssl_cacert_len |-> 0]

RelayInspect ==
    [id |-> 2, flags |-> {"F_SSL", "F_SSLCLIENT"},
     ssl_key |-> <<9, 6>>, ssl_key_len |-> 2, ssl_keyid |-> 2,
     ssl_cakey |-> <<9, 5>>, ssl_cakey_len |-> 2, ssl_cakeyid |-> 3,
     ssl_cacert_len |-> 1]

RelayPlain ==
    [id |-> 3, flags |-> {},
     ssl_key |-> <<>>, ssl_key_len |-> 0, ssl_keyid |-> 0,
     ssl_cakey |-> <<>>, ssl_cakey_len |-> 0, ssl_cakeyid |-> 0,
     ssl_cacert_len |-> 0]

FileA ==
    [tables |-> <<1>>, rdrs |-> <<1>>,
     protos |-> << [id |-> 1, rules |-> <<1>>] >>,
     relays |-> << RelaySsl >>,
     sc_flags |-> {"F_NEEDPF", "F_SSL"}]

FileB ==
    [tables |-> <<>>, rdrs |-> <<>>, protos |-> <<>>,
     relays |-> << RelayInspect, RelayPlain >>,
     sc_flags |-> {"F_SSL", "F_SSLCLIENT"}]

\* what the parser finds: a configuration, or a file it rejects
ConfFiles ==
    {[ok |-> TRUE, conf |-> FileA], [ok |-> TRUE, conf |-> FileB],
     [ok |-> FALSE, conf |-> FileA]}

EmptyConf ==
    [tables |-> <<>>, rdrs |-> <<>>, protos |-> <<>>, relays |-> <<>>,
     sc_flags |-> {}]

\* load_config(): parse the file into env; -1 on a parse or semantic error,
\* leaving env without the entities of the file.
load_config(file, env) ==
    IF ~file.ok
    THEN [ret |-> -1, env |-> [env EXCEPT !.sc_flags = {}]]
    ELSE [ret |-> 0, env |-> file.conf]

\* config_purge(env, reset): drop the categories named by reset that this
\* process keeps.
config_purge(env, id, reset) ==
    LET what == ps_what(id) \cap reset IN
    [tables   |-> IF "TABLES" \in what THEN <<>> ELSE env.tables,
     rdrs     |-> IF "RDRS"   \in what THEN <<>> ELSE env.rdrs,
     relays   |-> IF "RELAYS" \in what THEN <<>> ELSE env.relays,
     protos   |-> IF "PROTOS" \in what THEN <<>> ELSE env.protos,
     sc_flags |-> env.sc_flags]

(***************************************************************************)
(* The parent's writes.  Every function that sends returns the sequence    *)
(* of its writes, in order; a write is [to, type, data] with to the        *)
(* worker <<id, instance>> whose socket pair it goes to.                   *)
(***************************************************************************)
\* proc_compose_imsg(ps, id, n, type, ...): n = -1 addresses every instance
proc_compose_imsg(id, n, msg) ==
    IF n = -1
    THEN [i \in 1 .. Cardinality(Instances(id)) |->
            [to |-> <<id, i - 1>>, type |-> msg.type, data |-> msg.data]]
    ELSE << [to |-> <<id, n>>, type |-> msg.type, data |-> msg.data] >>

\* the private-key bytes leave the parent towards the CA only
StripKeys(rl) == [rl EXCEPT !.ssl_key = <<>>, !.ssl_cakey = <<>>]

\* the loop "for (id = 0; id < PROC_MAX; id++)" of the config_set*()
\* functions, from position k of the enum
RECURSIVE config_set(_, _, _, _)
config_set(k, what, type, data) ==
    IF k > Len(ProcIds) THEN <<>>
    ELSE LET id == ProcIds[k] IN
         (IF what \notin ps_what(id) \/ id = privsep_process
          THEN <<>>
          ELSE proc_compose_imsg(id, -1,
                    [type |-> type,
                     data |-> IF type = "IMSG_CFG_RELAY" /\ id # "PROC_CA"
                              THEN StripKeys(data) ELSE data]))
         \o config_set(k + 1, what, type, data)

config_settable(tb) == config_set(1, "TABLES", "IMSG_CFG_TABLE", tb)

config_setrdr(rdr) == config_set(1, "RDRS", "IMSG_CFG_RDR", rdr)

config_setproto(proto) == config_set(1, "PROTOS", "IMSG_CFG_PROTO", proto.id)

RECURSIVE config_setrule_from(_, _)
config_setrule_from(proto, i) ==
    IF i > Len(proto.rules) THEN <<>>
    ELSE config_set(1, "PROTOS", "IMSG_CFG_RULE", proto.rules[i])
         \o config_setrule_from(proto, i + 1)

config_setrule(proto) == config_setrule_from(proto, 1)

config_setrelay(rlay) == config_set(1, "RELAYS", "IMSG_CFG_RELAY", rlay)

RECURSIVE config_setreset_from(_, _)
config_setreset_from(k, reset) ==
    IF k > Len(ProcIds) THEN <<>>
    ELSE LET id == ProcIds[k] IN
         (IF (reset \cap ps_what(id)) = {} \/ id = privsep_process
          THEN <<>>
          ELSE proc_compose_imsg(id, -1,
                    [type |-> "IMSG_CTL_RESET", data |-> reset]))
         \o config_setreset_from(k + 1, reset)

\* config_setreset(env, reset): CTL_RESET with the scope to the workers
config_setreset(reset) == config_setreset_from(1, reset)

(***************************************************************************)
(* parent_configure                                                        *)
(***************************************************************************)
\* one TAILQ_FOREACH loop of parent_configure, from element i of the list
RECURSIVE config_setall(_, _, _)
config_setall(kind, list, i) ==
    IF i > Len(list) THEN <<>>
    ELSE (CASE kind = "table" -> config_settable(list[i])
            [] kind = "rdr"   -> config_setrdr(list[i])
            [] kind = "proto" -> config_setproto(list[i])
            [] kind = "rule"  -> config_setrule(list[i])
            [] kind = "relay" -> config_setrelay(list[i]))
         \o config_setall(kind, list, i + 1)

\* "Check for SSL Inspection": the flag the parent adds before sending
SslInspect(rlay) ==
    IF {"F_SSL", "F_SSLCLIENT"} \subseteq rlay.flags
       /\ rlay.ssl_cacert_len # 0 /\ rlay.ssl_cakey_len # 0
    THEN [rlay EXCEPT !.flags = @ \cup {"F_SSLINSPECT"}]
    ELSE rlay

\* the loop that sends IMSG_CFG_DONE; pf_ok is the outcome of open(PF_SOCKET)
RECURSIVE cfg_done_from(_, _, _)
cfg_done_from(k, env, pf_ok) ==
    IF k > Len(ProcIds) THEN [log |-> <<>>, ret |-> 0]
    ELSE LET id == ProcIds[k] IN
         IF id = privsep_process THEN cfg_done_from(k + 1, env, pf_ok)
         ELSE IF "F_NEEDPF" \in env.sc_flags /\ id = "PROC_PFE" /\ ~pf_ok
         THEN [log |-> <<>>, ret |-> -1]
         ELSE LET rest == cfg_done_from(k + 1, env, pf_ok) IN
              [log |-> proc_compose_imsg(id, -1,
                          [type |-> "IMSG_CFG_DONE",
                           data |-> [cf_flags |-> env.sc_flags,
                                     fd |-> IF "F_NEEDPF" \in env.sc_flags
                                               /\ id = "PROC_PFE"
                                            THEN "pf" ELSE "none"]])
                       \o rest.log,
               ret |-> rest.ret]

\* a variant that sends CFG_DONE before the relays
parent_configure_done_first(env, pf_ok) ==
    LET relays == [i \in 1 .. Len(env.relays) |-> SslInspect(env.relays[i])]
        env1   == [env EXCEPT !.relays = relays]
        done   == cfg_done_from(1, env1, pf_ok)
    IN  [ret       |-> done.ret,
         log       |-> config_setall("table", env.tables, 1)
                       \o config_setall("rdr", env.rdrs, 1)
                       \o config_setall("proto", env.protos, 1)
                       \o config_setall("rule", env.protos, 1)
                       \o done.log
                       \o config_setall("relay", relays, 1),
         sc_reload |-> 2 + (2 * sc_prefork_relay),
         env       |-> config_purge(env1, privsep_process,
                                    CONFIG_ALL \ {"RELAYS"})]

parent_configure(env, pf_ok) ==
    LET relays == [i \in 1 .. Len(env.relays) |-> SslInspect(env.relays[i])]
        env1   == [env EXCEPT !.relays = relays]
        done   == cfg_done_from(1, env1, pf_ok)
    IN  [ret       |-> done.ret,
         log       |-> config_setall("table", env.tables, 1)
                       \o config_setall("rdr", env.rdrs, 1)
                       \o config_setall("proto", env.protos, 1)
                       \o config_setall("rule", env.protos, 1)
                       \o config_setall("relay", relays, 1)
                       \o done.log,
         sc_reload |-> 2 + (2 * sc_prefork_relay),
         env       |-> config_purge(env1, privsep_process,
                                    CONFIG_ALL \ {"RELAYS"})]

(***************************************************************************)
(* parent_reload(env, reset, filename).  file is what the parser finds in  *)
(* the configuration file; the result says whether the request was taken.  *)
(***************************************************************************)
\* what parent_reload does once the request is taken
parent_reload_taken(env, reload, reset, file, pf_ok) ==
    LET purged == config_purge(env, privsep_process, CONFIG_ALL) IN
    IF reset = CONFIG_RELOAD
    THEN LET ld  == load_config(file, purged)
             cfg == parent_configure(ld.env, pf_ok)
         IN  [taken |-> TRUE, env |-> cfg.env,
              sc_reload |-> cfg.sc_reload,
              log |-> config_setreset(CONFIG_ALL) \o cfg.log,
              load_ret |-> ld.ret, cfg_ret |-> cfg.ret, conf |-> ld.env]
    ELSE [taken |-> TRUE, env |-> purged, sc_reload |-> reload,
          log |-> config_setreset(reset),
          load_ret |-> 0, cfg_ret |-> 0, conf |-> purged]

\* a variant without the "already in progress" test
parent_reload_always(env, reload, reset, file, pf_ok) ==
    parent_reload_taken(env, reload, reset, file, pf_ok)

\* a variant that writes CTL_RESET after the new configuration
parent_reload_reset_last(env, reload, reset, file, pf_ok) ==
    LET t == parent_reload_taken(env, reload, reset, file, pf_ok)
        n == Len(config_setreset(CONFIG_ALL))
    IN  IF reload # 0
        THEN [taken |-> FALSE, env |-> env, sc_reload |-> reload,
              log |-> <<>>, load_ret |-> 0, cfg_ret |-> 0, conf |-> env]
        ELSE IF reset = CONFIG_RELOAD
        THEN [t EXCEPT !.log = SubSeq(@, n + 1, Len(@)) \o SubSeq(@, 1, n)]
        ELSE t

parent_reload(env, reload, reset, file, pf_ok) ==
    IF reload # 0
    THEN [taken |-> FALSE, env |-> env, sc_reload |-> reload, log |-> <<>>,
          load_ret |-> 0, cfg_ret |-> 0, conf |-> env]
    ELSE parent_reload_taken(env, reload, reset, file, pf_ok)

(***************************************************************************)
(* parent_configure_done                                                   *)
(***************************************************************************)
RECURSIVE ctl_start_from(_)
ctl_start_from(k) ==
    IF k > Len(ProcIds) THEN <<>>
    ELSE (IF ProcIds[k] = privsep_process THEN <<>>
          ELSE proc_compose_imsg(ProcIds[k], -1,
                  [type |-> "IMSG_CTL_START", data |-> -1]))
         \o ctl_start_from(k + 1)

\* a variant that broadcasts CTL_START one acknowledgement early
parent_configure_done_early(reload) ==
    IF reload = 0
    THEN [sc_reload |-> reload, log |-> <<>>]
    ELSE [sc_reload |-> reload - 1,
          log |-> IF reload - 1 = 1 THEN ctl_start_from(1) ELSE <<>>]

\* a variant without the check for a finished configuration
parent_configure_done_below(reload) ==
    [sc_reload |-> reload - 1,
     log |-> IF reload - 1 = 0 THEN ctl_start_from(1) ELSE <<>>]

parent_configure_done(reload) ==
    IF reload = 0
    THEN [sc_reload |-> reload, log |-> <<>>]
    ELSE [sc_reload |-> reload - 1,
          log |-> IF reload - 1 = 0 THEN ctl_start_from(1) ELSE <<>>]

(***************************************************************************)
(* The RSA primitives of the TLS library, on a two-byte modulus.  A        *)
(* private-key handle is [d |-> private exponent]; d = 0 is the NULL       *)
(* handle.  Padding of a message m: 3 .. 3 0 m, filling the modulus.       *)
(***************************************************************************)
RSA_size(rsa) == 2

NullPkey == [d |-> 0]

Pad(m, size) == [i \in 1 .. (size - 1 - Len(m)) |-> 3] \o <<0>> \o m

RECURSIVE Unpad(_)
Unpad(raw) ==
    IF raw = <<>> THEN [ok |-> FALSE, m |-> <<>>]
    ELSE IF raw[1] = 0 THEN [ok |-> TRUE, m |-> Tail(raw)]
    ELSE IF raw[1] = 3 THEN Unpad(Tail(raw))
    ELSE [ok |-> FALSE, m |-> <<>>]

\* returns the size of the signature, or -1 on error
RSA_private_encrypt(flen, from, rsa, padding) ==
    IF flen > RSA_size(rsa) - 1 \/ flen # Len(from)
    THEN [ret |-> -1, to |-> <<>>]
    ELSE LET em == Pad(from, RSA_size(rsa)) IN
         [ret |-> RSA_size(rsa),
          to  |-> [i \in 1 .. RSA_size(rsa) |-> (em[i] + rsa.d) % 4]]

\* returns the size of the recovered plaintext, or -1 on error
RSA_private_decrypt(flen, from, rsa, padding) ==
    IF flen # RSA_size(rsa) \/ flen # Len(from)
    THEN [ret |-> -1, to |-> <<>>]
    ELSE LET raw == [i \in 1 .. flen |-> (from[i] + 8 - rsa.d) % 4]
             um  == Unpad(raw)
         IN  IF um.ok THEN [ret |-> Len(um.m), to |-> um.m]
             ELSE [ret |-> -1, to |-> <<>>]

\* PEM_read_bio_PrivateKey over BIO_new_mem_buf(key, len)
PEM_read_bio_PrivateKey(key, len) ==
    IF Len(key) = 2 /\ len = 2 /\ key[1] = 9 THEN [d |-> key[2]] ELSE NullPkey

(***************************************************************************)
(* The CA pkey table                                                       *)
(***************************************************************************)
RECURSIVE pkey_find_from(_, _, _)
pkey_find_from(pkeys, id, i) ==
    IF i > Len(pkeys) THEN NullPkey
    ELSE IF pkeys[i].pkey_id = id THEN pkeys[i].pkey
    ELSE pkey_find_from(pkeys, id, i + 1)

pkey_find(pkeys, id) == pkey_find_from(pkeys, id, 1)

pkey_add(pkeys, pkey, id) == Append(pkeys, [pkey |-> pkey, pkey_id |-> id])

(***************************************************************************)
(* purge_key(&ptr, len): zero-fill and free the buffer and set the pointer *)
(* to NULL; nothing when the pointer is NULL or len is 0.  The result is   *)
(* the pointer afterwards; <<>> is the NULL pointer.                       *)
(***************************************************************************)
purge_key(ptr, len) ==
    IF ptr = <<>> \/ len = 0 THEN ptr ELSE <<>>

(***************************************************************************)
(* ca_launch: the CA's handler of CTL_START.  cenv = [relays, pkeys].      *)
(***************************************************************************)
\* a variant that files the CA key under the id of the TLS key
ca_launch_relay_keyid(r, i) ==
    LET rlay == r.relays[i] IN
    IF rlay.flags \cap {"F_SSL", "F_SSLCLIENT"} = {} THEN r
    ELSE
      LET pk  == PEM_read_bio_PrivateKey(rlay.ssl_key, rlay.ssl_key_len)
          f1  == rlay.ssl_key_len # 0 /\ pk = NullPkey
          pk1 == IF rlay.ssl_key_len # 0
                 THEN pkey_add(r.pkeys, pk, rlay.ssl_keyid) ELSE r.pkeys
          rl1 == IF rlay.ssl_key_len # 0
                 THEN [rlay EXCEPT !.ssl_key = purge_key(@, rlay.ssl_key_len)]
                 ELSE rlay
          cpk == PEM_read_bio_PrivateKey(rlay.ssl_cakey, rlay.ssl_cakey_len)
          f2  == rlay.ssl_cakey_len # 0 /\ cpk = NullPkey
          pk2 == IF rlay.ssl_cakey_len # 0
                 THEN pkey_add(pk1, cpk, rlay.ssl_keyid) ELSE pk1
          rl2 == IF rlay.ssl_cakey_len # 0
                 THEN [rl1 EXCEPT
                         !.ssl_cakey = purge_key(@, rlay.ssl_cakey_len)]
                 ELSE rl1
      IN  IF f1 THEN [r EXCEPT !.fatal = TRUE]
          ELSE IF f2
          THEN [fatal |-> TRUE, relays |-> [r.relays EXCEPT ![i] = rl1],
                pkeys |-> pk1]
          ELSE [fatal |-> FALSE, relays |-> [r.relays EXCEPT ![i] = rl2],
                pkeys |-> pk2]

\* one relay of the TAILQ_FOREACH; r = [fatal, relays, pkeys]
ca_launch_relay(r, i) ==
    LET rlay == r.relays[i] IN
    IF rlay.flags \cap {"F_SSL", "F_SSLCLIENT"} = {} THEN r
    ELSE
      LET pk  == PEM_read_bio_PrivateKey(rlay.ssl_key, rlay.ssl_key_len)
          f1  == rlay.ssl_key_len # 0 /\ pk = NullPkey
          pk1 == IF rlay.ssl_key_len # 0
                 THEN pkey_add(r.pkeys, pk, rlay.ssl_keyid) ELSE r.pkeys
          rl1 == IF rlay.ssl_key_len # 0
                 THEN [rlay EXCEPT !.ssl_key = purge_key(@, rlay.ssl_key_len)]
                 ELSE rlay
          cpk == PEM_read_bio_PrivateKey(rlay.ssl_cakey, rlay.ssl_cakey_len)
          f2  == rlay.ssl_cakey_len # 0 /\ cpk = NullPkey
          pk2 == IF rlay.ssl_cakey_len # 0
                 THEN pkey_add(pk1, cpk, rlay.ssl_cakeyid) ELSE pk1
          rl2 == IF rlay.ssl_cakey_len # 0
                 THEN [rl1 EXCEPT
                         !.ssl_cakey = purge_key(@, rlay.ssl_cakey_len)]
                 ELSE rl1
      IN  IF f1 THEN [r EXCEPT !.fatal = TRUE]
          ELSE IF f2
          THEN [fatal |-> TRUE, relays |-> [r.relays EXCEPT ![i] = rl1],
                pkeys |-> pk1]
          ELSE [fatal |-> FALSE, relays |-> [r.relays EXCEPT ![i] = rl2],
                pkeys |-> pk2]

RECURSIVE ca_launch_from(_, _)
ca_launch_from(r, i) ==
    IF i > Len(r.relays) \/ r.fatal THEN r
    ELSE ca_launch_from(ca_launch_relay(r, i), i + 1)

ca_launch(cenv) ==
    ca_launch_from([fatal |-> FALSE, relays |-> cenv.relays,
                    pkeys |-> cenv.pkeys], 1)

(***************************************************************************)
(* ca_dispatch_parent.  cenv = [relays, pkeys]; the result names the       *)
(* dispatcher's return value, whether the CA died in fatalx() and whether  *)
(* CFG_DONE is acknowledged to the parent (config_getcfg).                 *)
(***************************************************************************)
\* config_getrelay: materialise the relay in this process
config_getrelay(cenv, imsg) ==
    [cenv EXCEPT !.relays = Append(@, imsg.data)]

\* config_getreset: purge what the scope names; the relays of a CA own the
\* key handles of its pkey table
config_getreset(cenv, id, imsg) ==
    IF "RELAYS" \in (ps_what(id) \cap imsg.data)
    THEN [cenv EXCEPT !.relays = <<>>, !.pkeys = <<>>]
    ELSE cenv

ca_dispatch_parent(cenv, imsg) ==
    CASE imsg.type = "IMSG_CFG_RELAY" ->
            [ret |-> 0, fatal |-> FALSE, ack |-> FALSE,
             cenv |-> config_getrelay(cenv, imsg)]
      [] imsg.type = "IMSG_CFG_DONE" ->
            [ret |-> 0, fatal |-> FALSE, ack |-> TRUE, cenv |-> cenv]
      [] imsg.type = "IMSG_CTL_START" ->
            LET l == ca_launch(cenv) IN
            [ret |-> 0, fatal |-> l.fatal, ack |-> FALSE,
             cenv |-> [relays |-> l.relays, pkeys |-> l.pkeys]]
      [] imsg.type = "IMSG_CTL_RESET" ->
            [ret |-> 0, fatal |-> FALSE, ack |-> FALSE,
             cenv |-> config_getreset(cenv, "PROC_CA", imsg)]
      [] OTHER ->
            [ret |-> -1, fatal |-> FALSE, ack |-> FALSE, cenv |-> cenv]

(***************************************************************************)
(* ca_dispatch_relay.  An imsg of the key-op RPC is                        *)
(* [type, short, cko, data]: the ctl_keyop header and the bytes after it.  *)
(* out is the sequence of replies written, each [proc, msg].               *)
(***************************************************************************)
\* What a build does with an iovec whose iov_len is (size_t)-1: the
\* buffer code either refuses the length, and nothing is written, or
\* copies past the end of the buffer, and the process dies.
UbOutcomes == {"dropped", "crash"}

\* proc_composev_imsg(ps, PROC_RELAY, proc, type, -1, iov, c): the writes,
\* each [proc, msg], and whether the caller survived
proc_composev_imsg(proc, type, cko, iov_to, iov_len, ub) ==
    IF iov_len < 0
    THEN [out |-> <<>>, crash |-> ub = "crash"]
    ELSE [out |-> << [proc |-> proc,
                      msg  |-> [type |-> type, short |-> FALSE, cko |-> cko,
                                data |-> SubSeq(iov_to, 1, iov_len)]] >>,
          crash |-> FALSE]

\* IMSG_SIZE_CHECK(imsg, p): fatal when the payload ends before the struct
\* does.  An imsg carries short = TRUE when its payload is shorter than the
\* struct of its type; data are the bytes after the struct.
IMSG_SIZE_CHECK(imsg) == imsg.short

ca_dispatch_relay(cenv, imsg, ub) ==
    IF imsg.type \notin {"IMSG_CA_PRIVENC", "IMSG_CA_PRIVDEC"}
    THEN [ret |-> -1, fatal |-> FALSE, out |-> <<>>, res |-> 0]
    ELSE
      LET cko  == imsg.cko
          pkey == pkey_find(cenv.pkeys, cko.cko_id)
      IN
      IF IMSG_SIZE_CHECK(imsg)
      THEN [ret |-> 0, fatal |-> TRUE, out |-> <<>>, res |-> 0]
      ELSE IF cko.cko_proc > sc_prefork_relay
      THEN [ret |-> 0, fatal |-> TRUE, out |-> <<>>, res |-> 0]
      ELSE IF Len(imsg.data) # cko.cko_flen
      THEN [ret |-> 0, fatal |-> TRUE, out |-> <<>>, res |-> 0]
      ELSE IF pkey = NullPkey
      THEN [ret |-> 0, fatal |-> TRUE, out |-> <<>>, res |-> 0]
      ELSE
        LET op   == IF imsg.type = "IMSG_CA_PRIVENC"
                    THEN RSA_private_encrypt(cko.cko_flen, imsg.data, pkey,
                                             cko.cko_padding)
                    ELSE RSA_private_decrypt(cko.cko_flen, imsg.data, pkey,
                                             cko.cko_padding)
             \* to = calloc(1, cko_tlen), then written by the operation
             to   == op.to \o [i \in 1 .. (cko.cko_tlen - Len(op.to)) |-> 0]
             cko1 == [cko EXCEPT !.cko_tlen = op.ret]
             w    == IF cko1.cko_tlen # 0
                     THEN proc_composev_imsg(cko.cko_proc, imsg.type, cko1,
                                             to, cko1.cko_tlen, ub)
                     ELSE proc_composev_imsg(cko.cko_proc, imsg.type, cko1,
                                             <<>>, 0, ub)
        IN  [ret |-> 0, fatal |-> w.crash, res |-> op.ret, out |-> w.out]

(***************************************************************************)
(* The RSA privsep engine of the relay.  An RSA handle is                  *)
(* [ex_data, d]: ex_data is <<objid>> or <<>> (NULL), d the private        *)
(* exponent when the key lives in this process (0 otherwise).              *)
(***************************************************************************)
\* proc_iev(ps, PROC_CA, proc_id): the channel to the paired CA instance
proc_iev(proc_id) == proc_id

\* the request rsae_send_imsg writes; <<>> when the handle has no objid
rsae_request(proc_id, flen, from, rsa, padding, cmd) ==
    IF rsa.ex_data = <<>> THEN <<>>
    ELSE << [type |-> cmd, short |-> FALSE,
             cko  |-> [cko_id |-> rsa.ex_data[1], cko_proc |-> proc_id,
                       cko_flen |-> flen, cko_tlen |-> RSA_size(rsa),
                       cko_padding |-> padding],
             data |-> SubSeq(from, 1, flen)] >>

\* a variant that takes a reply of any type
rsae_reply_anytype(cmd, imsg) ==
    [fatal |-> "", ret |-> imsg.cko.cko_tlen,
     to |-> SubSeq(imsg.data, 1, imsg.cko.cko_tlen)]

\* a variant that copies cko_tlen bytes whatever the size of the payload
rsae_reply_nosize(cmd, imsg) ==
    IF imsg.type # cmd
    THEN [fatal |-> "invalid response", ret |-> 0, to |-> <<>>]
    ELSE IF IMSG_SIZE_CHECK(imsg)
    THEN [fatal |-> "bad length imsg received", ret |-> 0, to |-> <<>>]
    ELSE [fatal |-> "", ret |-> imsg.cko.cko_tlen,
          to |-> IF imsg.cko.cko_tlen # 0
                 THEN SubSeq(imsg.data, 1, imsg.cko.cko_tlen) ELSE <<>>]

\* one imsg_get in the wait loop of rsae_send_imsg
rsae_reply(cmd, imsg) ==
    IF imsg.type # cmd
    THEN [fatal |-> "invalid response", ret |-> 0, to |-> <<>>]
    ELSE IF IMSG_SIZE_CHECK(imsg)
    THEN [fatal |-> "bad length imsg received", ret |-> 0, to |-> <<>>]
    ELSE IF Len(imsg.data) # imsg.cko.cko_tlen
    THEN [fatal |-> "data size", ret |-> 0, to |-> <<>>]
    ELSE [fatal |-> "", ret |-> imsg.cko.cko_tlen,
          to |-> IF imsg.cko.cko_tlen # 0
                 THEN SubSeq(imsg.data, 1, imsg.cko.cko_tlen) ELSE <<>>]

\* a variant that always uses the default method of this process
rsae_priv_default(flen, from, rsa, padding, cmd) ==
    LET op == IF cmd = "IMSG_CA_PRIVENC"
              THEN RSA_private_encrypt(flen, from, rsa, padding)
              ELSE RSA_private_decrypt(flen, from, rsa, padding)
    IN  [via |-> "local", ret |-> op.ret, to |-> op.to]

\* rsae_priv_enc / rsae_priv_dec: "imsg" when the operation goes to the CA,
\* otherwise the result of the default method in this process
rsae_priv(flen, from, rsa, padding, cmd) ==
    IF rsa.ex_data # <<>>
    THEN [via |-> "imsg", ret |-> 0, to |-> <<>>]
    ELSE LET op == IF cmd = "IMSG_CA_PRIVENC"
                   THEN RSA_private_encrypt(flen, from, rsa, padding)
                   ELSE RSA_private_decrypt(flen, from, rsa, padding)
         IN  [via |-> "local", ret |-> op.ret, to |-> op.to]

(***************************************************************************)
(* The parent's dispatchers.  The result: ret, the dispatcher's return     *)
(* value; env, sc_reload and the send state after it; shutdown, whether    *)
(* parent_shutdown() ran; rl, what parent_reload() answered (called = FALSE *)
(* when it was not called); done, whether parent_configure_done() ran.     *)
(***************************************************************************)
NoReload(env) ==
    [called |-> FALSE, taken |-> FALSE, load_ret |-> 0, cfg_ret |-> 0,
     conf |-> env]

DidReload(r) ==
    [called |-> TRUE, taken |-> r.taken, load_ret |-> r.load_ret,
     cfg_ret |-> r.cfg_ret, conf |-> r.conf]

Rejected(env, reload) ==
    [ret |-> -1, env |-> env, sc_reload |-> reload, log |-> <<>>,
     shutdown |-> FALSE, rl |-> NoReload(env), done |-> FALSE]

ConfigureDone(env, reload) ==
    LET d == parent_configure_done(reload) IN
    [ret |-> 0, env |-> env, sc_reload |-> d.sc_reload, log |-> d.log,
     shutdown |-> FALSE, rl |-> NoReload(env), done |-> TRUE]

Reloaded(r) ==
    [ret |-> 0, env |-> r.env, sc_reload |-> r.sc_reload, log |-> r.log,
     shutdown |-> FALSE, rl |-> DidReload(r), done |-> FALSE]

parent_dispatch_pfe(imsg, env, reload, file, pf_ok) ==
    CASE imsg.type = "IMSG_CTL_RESET" ->
            Reloaded(parent_reload(env, reload, imsg.data, file, pf_ok))
      [] imsg.type = "IMSG_CTL_RELOAD" ->
            Reloaded(parent_reload(env, reload, CONFIG_RELOAD, file,
                                   pf_ok))
      [] imsg.type = "IMSG_CTL_SHUTDOWN" ->
            [ret |-> 0, env |-> env, sc_reload |-> reload, log |-> <<>>,
             shutdown |-> TRUE, rl |-> NoReload(env), done |-> FALSE]
      [] imsg.type = "IMSG_CFG_DONE" -> ConfigureDone(env, reload)
      [] OTHER -> Rejected(env, reload)

\* script_exec(env, scr): runs the check script of a host and returns its
\* verdict; scr.exec is what the run of the script yields
script_exec(scr) == scr.exec

parent_dispatch_hce(imsg, env, reload) ==
    CASE imsg.type = "IMSG_SCRIPT" ->
            IF IMSG_SIZE_CHECK(imsg) THEN Rejected(env, reload)
            ELSE [ret |-> 0, env |-> env, sc_reload |-> reload,
                  log |-> proc_compose_imsg("PROC_HCE", -1,
                              [type |-> "IMSG_SCRIPT",
                               data |-> [host |-> imsg.scr.host,
                                         retval |-> script_exec(imsg.scr)]]),
                  shutdown |-> FALSE, rl |-> NoReload(env), done |-> FALSE]
      [] imsg.type = "IMSG_CFG_DONE" -> ConfigureDone(env, reload)
      [] OTHER -> Rejected(env, reload)

\* bindany(bnd): sys names the first of its calls that fails, "" when none
\* does.  s is the descriptor returned, -1 on failure; opened and closed
\* say whether socket() made a descriptor and whether the fail path closed
\* it again.
bindany(bnd, sys) ==
    LET socktype == IF bnd.bnd_proto = "IPPROTO_TCP"
                    THEN "SOCK_STREAM" ELSE "SOCK_DGRAM"
    IN  IF sys \in {"relay_socket_af", "socket"}
        THEN [s |-> -1, socktype |-> socktype, opened |-> FALSE,
              closed |-> FALSE]
        ELSE IF sys \in {"setsockopt", "bind"}
        THEN [s |-> -1, socktype |-> socktype, opened |-> TRUE,
              closed |-> TRUE]
        ELSE [s |-> 3, socktype |-> socktype, opened |-> TRUE,
              closed |-> FALSE]

\* a variant that answers a failed bindany() with no reply at all
parent_dispatch_relay_noreply(imsg, env, reload, sys) ==
    CASE imsg.type = "IMSG_BINDANY" ->
            IF IMSG_SIZE_CHECK(imsg) THEN Rejected(env, reload)
            ELSE IF imsg.bnd.bnd_proc > sc_prefork_relay
            THEN Rejected(env, reload)
            ELSE IF imsg.bnd.bnd_proto \notin {"IPPROTO_TCP", "IPPROTO_UDP"}
            THEN Rejected(env, reload)
            ELSE [ret |-> 0, env |-> env, sc_reload |-> reload,
                  log |-> IF bindany(imsg.bnd, sys).s = -1 THEN <<>>
                          ELSE proc_compose_imsg("PROC_RELAY",
                                  imsg.bnd.bnd_proc,
                                  [type |-> "IMSG_BINDANY",
                                   data |-> [fd |-> bindany(imsg.bnd, sys).s,
                                             bnd_id |-> imsg.bnd.bnd_id]]),
                  shutdown |-> FALSE, rl |-> NoReload(env), done |-> FALSE]
      [] imsg.type = "IMSG_CFG_DONE" -> ConfigureDone(env, reload)
      [] OTHER -> Rejected(env, reload)

\* sys is the outcome of the system calls of bindany().  fatalx() ends the
\* parent as a dispatcher that returns -1 does: the result is Rejected.
parent_dispatch_relay(imsg, env, reload, sys) ==
    CASE imsg.type = "IMSG_BINDANY" ->
            IF IMSG_SIZE_CHECK(imsg) THEN Rejected(env, reload)
            ELSE IF imsg.bnd.bnd_proc > sc_prefork_relay
            THEN Rejected(env, reload)
            ELSE IF imsg.bnd.bnd_proto \notin {"IPPROTO_TCP", "IPPROTO_UDP"}
            THEN Rejected(env, reload)
            ELSE [ret |-> 0, env |-> env, sc_reload |-> reload,
                  log |-> proc_compose_imsg("PROC_RELAY", imsg.bnd.bnd_proc,
                              [type |-> "IMSG_BINDANY",
                               data |-> [fd |-> bindany(imsg.bnd, sys).s,
                                         bnd_id |-> imsg.bnd.bnd_id]]),
                  shutdown |-> FALSE, rl |-> NoReload(env), done |-> FALSE]
      [] imsg.type = "IMSG_CFG_DONE" -> ConfigureDone(env, reload)
      [] OTHER -> Rejected(env, reload)

\* a variant that takes IMSG_CTL_SHUTDOWN from a CA
parent_dispatch_ca_shutdown(imsg, env, reload) ==
    CASE imsg.type = "IMSG_CFG_DONE" -> ConfigureDone(env, reload)
      [] imsg.type = "IMSG_CTL_SHUTDOWN" ->
            [ret |-> 0, env |-> env, sc_reload |-> reload, log |-> <<>>,
             shutdown |-> TRUE, rl |-> NoReload(env), done |-> FALSE]
      [] OTHER -> Rejected(env, reload)

parent_dispatch_ca(imsg, env, reload) ==
    CASE imsg.type = "IMSG_CFG_DONE" -> ConfigureDone(env, reload)
      [] OTHER -> Rejected(env, reload)

(***************************************************************************)
(* Key-value trees (kv_add, kv_find, kv_cmp).  A string is the sequence of *)
(* its bytes; a kvtree is the sequence of its nodes in the order of the    *)
(* red-black tree (ascending by kv_cmp); a node is                         *)
(* [kv_key, kv_value, kv_children].  A pointer to a node of the tree is    *)
(* its position, 0 the NULL pointer.                                       *)
(***************************************************************************)
\* the longest key drawn
MaxKeyLen == 2
\* the most nodes a tree is grown to
MaxKvNodes == 2

\* the NULL string pointer: no string holds a 0 byte
KvNull == <<0>>

tolower(c) == IF c >= 65 /\ c <= 90 THEN c + 32 ELSE c

RECURSIVE strcasecmp(_, _)
strcasecmp(a, b) ==
    IF a = <<>> /\ b = <<>> THEN 0
    ELSE IF a = <<>> THEN 0 - tolower(b[1])
    ELSE IF b = <<>> THEN tolower(a[1])
    ELSE IF tolower(a[1]) # tolower(b[1]) THEN tolower(a[1]) - tolower(b[1])
    ELSE strcasecmp(Tail(a), Tail(b))

kv_cmp(a, b) == strcasecmp(a.kv_key, b.kv_key)

\* the bytes of p from position i on
From(p, i) == SubSeq(p, i, Len(p))

\* rangematch(): the bracket expression that starts after the "[" at
\* position i of pattern p, tried on the byte test.  The result is
\* [ok, match, next]: ok = FALSE when no "]" closes it (the "[" is then an
\* ordinary byte), next the position after the "]".
RECURSIVE rangematch_from(_, _, _, _, _, _)
rangematch_from(p, i, test, fold, first, found) ==
    IF i > Len(p) THEN [ok |-> FALSE, match |-> FALSE, next |-> i]
    ELSE IF p[i] = 93 /\ ~first THEN [ok |-> TRUE, match |-> found, next |-> i + 1]
    ELSE
      LET esc == p[i] = 92 /\ i < Len(p)
          ci  == IF esc THEN i + 1 ELSE i
          c   == IF fold THEN tolower(p[ci]) ELSE p[ci]
          rng == /\ ci + 2 <= Len(p) /\ p[ci + 1] = 45 /\ p[ci + 2] # 93
          e2  == rng /\ p[ci + 2] = 92 /\ ci + 3 <= Len(p)
          di  == IF e2 THEN ci + 3 ELSE ci + 2
          d   == IF rng THEN (IF fold THEN tolower(p[di]) ELSE p[di]) ELSE c
          hit == IF rng THEN c <= test /\ test <= d ELSE c = test
      IN  rangematch_from(p, (IF rng THEN di ELSE ci) + 1, test, fold, FALSE,
                          found \/ hit)

rangematch(p, i, test, fold) ==
    LET neg == i <= Len(p) /\ p[i] \in {33, 94}
        r   == rangematch_from(p, IF neg THEN i + 1 ELSE i,
                               IF fold THEN tolower(test) ELSE test,
                               fold, TRUE, FALSE)
    IN  [r EXCEPT !.match = IF neg THEN ~@ ELSE @]

\* fnmatch(pattern, string, flags) with flags a subset of {FNM_CASEFOLD}:
\* TRUE when it returns 0.  "*" matches any run of bytes, "?" one byte,
\* "[" opens a bracket expression and "\" quotes the byte after it (a
\* trailing "\" stands for itself).
RECURSIVE fnmatch(_, _, _)
fnmatch(p, str, flags) ==
    LET fold == "FNM_CASEFOLD" \in flags
        same(c, t) == IF fold THEN tolower(c) = tolower(t) ELSE c = t
    IN
    IF p = <<>> THEN str = <<>>
    ELSE CASE p[1] = 63 ->
                 str # <<>> /\ fnmatch(Tail(p), Tail(str), flags)
           [] p[1] = 42 ->
                 \E k \in 1 .. Len(str) + 1 :
                     fnmatch(Tail(p), From(str, k), flags)
           [] p[1] = 91 ->
                 /\ str # <<>>
                 /\ LET r == rangematch(p, 2, str[1], fold) IN
                    IF r.ok
                    THEN r.match /\ fnmatch(From(p, r.next), Tail(str), flags)
                    ELSE same(91, str[1])
                         /\ fnmatch(Tail(p), Tail(str), flags)
           [] p[1] = 92 ->
                 /\ str # <<>>
                 /\ IF Len(p) = 1
                    THEN same(92, str[1]) /\ Len(str) = 1
                    ELSE same(p[2], str[1])
                         /\ fnmatch(From(p, 3), Tail(str), flags)
           [] OTHER ->
                 /\ str # <<>>
                 /\ same(p[1], str[1])
                 /\ fnmatch(Tail(p), Tail(str), flags)

\* RB_FIND(kvtree, keys, kv): descend by kv_cmp
RECURSIVE RB_FIND_from(_, _, _)
RB_FIND_from(keys, kv, i) ==
    IF i > Len(keys) THEN 0
    ELSE LET c == kv_cmp(kv, keys[i]) IN
         IF c = 0 THEN i
         ELSE IF c < 0 THEN 0
         ELSE RB_FIND_from(keys, kv, i + 1)

RB_FIND(keys, kv) == RB_FIND_from(keys, kv, 1)

\* RB_INSERT(kvtree, keys, kv): the node that already compares equal, or
\* 0 after linking kv into the tree
RB_INSERT(keys, kv) ==
    LET old == RB_FIND(keys, kv)
        k   == Cardinality({i \in 1 .. Len(keys) : kv_cmp(keys[i], kv) < 0})
    IN  IF old # 0 THEN [old |-> old, keys |-> keys]
        ELSE [old |-> 0,
              keys |-> SubSeq(keys, 1, k) \o <<kv>> \o From(keys, k + 1)]

\* kv_add(keys, key, value): kv is the new node's place, <<i>> in the tree
\* or <<i, n>> as child n of node i; <<>> when nothing was added
kv_add(keys, key, value) ==
    IF key = KvNull THEN [kv |-> <<>>, keys |-> keys]
    ELSE LET kv == [kv_key |-> key, kv_value |-> value, kv_children |-> <<>>]
             r  == RB_INSERT(keys, kv)
         IN  IF r.old # 0
             THEN [kv |-> <<r.old, Len(keys[r.old].kv_children) + 1>>,
                   keys |-> [keys EXCEPT ![r.old].kv_children =
                               Append(@, [kv_key |-> key,
                                          kv_value |-> value])]]
             ELSE [kv |-> <<RB_FIND(r.keys, kv)>>, keys |-> r.keys]

\* kv->kv_parent after kv_add(keys, key, value): the node of the tree that
\* compared equal, 0 (NULL, as calloc left it) when kv went into the tree
kv_add_parent(keys, key) ==
    IF key = KvNull THEN 0
    ELSE RB_INSERT(keys, [kv_key |-> key, kv_value |-> KvNull,
                          kv_children |-> <<>>]).old

\* a variant that leaves the children of kv in place
kv_set_keep(keys, i, value, ok) ==
    IF ~ok THEN [ret |-> -1, keys |-> keys]
    ELSE [ret |-> 0, keys |-> [keys EXCEPT ![i].kv_value = value]]

\* kv_set(kv, fmt, ...) for the node kv at position i of the tree; value is
\* the string vasprintf formats, ok is FALSE when it fails
kv_set(keys, i, value, ok) ==
    IF ~ok THEN [ret |-> -1, keys |-> keys]
    ELSE [ret |-> 0,
          keys |-> [keys EXCEPT ![i].kv_children = <<>>,
                                ![i].kv_value = value]]

\* a variant that frees kv alone and links its first child into the tree
\* in its place
kv_delete_promote(keys, i) ==
    IF keys[i].kv_children = <<>>
    THEN SubSeq(keys, 1, i - 1) \o From(keys, i + 1)
    ELSE [keys EXCEPT ![i] =
            [kv_key |-> keys[i].kv_children[1].kv_key,
             kv_value |-> keys[i].kv_children[1].kv_value,
             kv_children |-> Tail(keys[i].kv_children)]]

\* kv_delete(keys, kv) for the node kv at position i of the tree:
\* RB_REMOVE unlinks it, its children and the node itself are freed
kv_delete(keys, i) ==
    SubSeq(keys, 1, i - 1) \o From(keys, i + 1)

\* the RB_FOREACH loop of kv_find, from node i
RECURSIVE kv_find_glob(_, _, _, _)
kv_find_glob(keys, key, flags, i) ==
    IF i > Len(keys) THEN 0
    ELSE IF fnmatch(key, keys[i].kv_key, flags) THEN i
    ELSE kv_find_glob(keys, key, flags, i + 1)

\* a variant whose fnmatch() is called without FNM_CASEFOLD
kv_find_nocasefold(keys, kv) ==
    IF "KV_FLAG_GLOBBING" \in kv.kv_flags
    THEN kv_find_glob(keys, IF kv.kv_key = KvNull THEN <<>> ELSE kv.kv_key,
                      {}, 1)
    ELSE RB_FIND(keys, kv)

kv_find(keys, kv) ==
    IF "KV_FLAG_GLOBBING" \in kv.kv_flags
    THEN kv_find_glob(keys, IF kv.kv_key = KvNull THEN <<>> ELSE kv.kv_key,
                      {"FNM_CASEFOLD"}, 1)
    ELSE RB_FIND(keys, kv)

(***************************************************************************)
(* Relay rules (rule_add, rule_inherit, rule_free, rule_delete).  A rule   *)
(* is [rule_dir, rule_label, rule_tag, rule_tagged, rule_kv] with rule_kv  *)
(* its kv pattern per key type; an id of 0 is no label or tag.  The label  *)
(* and tag registries map each id to its reference count, 0 for an id that *)
(* is not interned.                                                        *)
(***************************************************************************)
\* the most rules allocated at a time
MaxRules == 3

\* the label and tag ids in use
RuleIds == 1 .. 2

\* the key types modelled, of KEY_TYPE_NONE .. KEY_TYPE_MAX-1
KeyTypes ==
    {"KEY_TYPE_HEADER", "KEY_TYPE_QUERY", "KEY_TYPE_PATH", "KEY_TYPE_URL"}

NoKv ==
    [kv_type |-> "KEY_TYPE_NONE", kv_option |-> "KEY_OPTION_NONE",
     kv_key |-> KvNull, kv_value |-> KvNull, kv_flags |-> {}]

\* _ref(): one more reference on an interned id
label_ref(refs, id) ==
    IF refs[id] > 0 THEN [refs EXCEPT ![id] = @ + 1] ELSE refs

\* _unref(): one reference less; the entry is freed at zero
label_unref(refs, id) ==
    IF refs[id] > 0 THEN [refs EXCEPT ![id] = @ - 1] ELSE refs

tag_ref(refs, id) == label_ref(refs, id)

tag_unref(refs, id) == label_unref(refs, id)

\* kv_inherit(dst, src): a copy with its own key and value strings
kv_inherit(src) == src

\* kv_free(kv)
kv_free(kv) == IF kv.kv_type = "KEY_TYPE_NONE" THEN kv ELSE NoKv

\* a variant that takes no reference on the label
rule_inherit_nolabel(reg, rule, ok) ==
    IF ~ok THEN [ok |-> FALSE, r |-> rule, reg |-> reg]
    ELSE
      LET r  == [rule EXCEPT
                   !.rule_kv = [t \in KeyTypes |->
                                   IF rule.rule_kv[t].kv_type = t
                                   THEN kv_inherit(rule.rule_kv[t])
                                   ELSE rule.rule_kv[t]]]
          t1 == IF r.rule_tag > 0 THEN tag_ref(reg.tags, r.rule_tag)
                ELSE reg.tags
          t2 == IF r.rule_tagged > 0 THEN tag_ref(t1, r.rule_tagged) ELSE t1
      IN  [ok |-> TRUE, r |-> r, reg |-> [labels |-> reg.labels, tags |-> t2]]

\* rule_inherit(rule): ok = FALSE when calloc() or strdup() fails; the
\* result is the copy r and the registries after it
rule_inherit(reg, rule, ok) ==
    IF ~ok THEN [ok |-> FALSE, r |-> rule, reg |-> reg]
    ELSE
      LET r  == [rule EXCEPT
                   !.rule_kv = [t \in KeyTypes |->
                                   IF rule.rule_kv[t].kv_type = t
                                   THEN kv_inherit(rule.rule_kv[t])
                                   ELSE rule.rule_kv[t]]]
          l  == IF r.rule_label > 0 THEN label_ref(reg.labels, r.rule_label)
                ELSE reg.labels
          t1 == IF r.rule_tag > 0 THEN tag_ref(reg.tags, r.rule_tag)
                ELSE reg.tags
          t2 == IF r.rule_tagged > 0 THEN tag_ref(t1, r.rule_tagged) ELSE t1
      IN  [ok |-> TRUE, r |-> r, reg |-> [labels |-> l, tags |-> t2]]

\* rule_free(rule): the registries after it
rule_free(reg, rule) ==
    LET l  == IF rule.rule_label > 0
              THEN label_unref(reg.labels, rule.rule_label) ELSE reg.labels
        t1 == IF rule.rule_tag > 0 THEN tag_unref(reg.tags, rule.rule_tag)
              ELSE reg.tags
        t2 == IF rule.rule_tagged > 0 THEN tag_unref(t1, rule.rule_tagged)
              ELSE t1
    IN  [labels |-> l, tags |-> t2]

\* the list without its element i
Without(list, i) == SubSeq(list, 1, i - 1) \o SubSeq(list, i + 1, Len(list))

\* rule_delete(rules, rule), rule the element i of rules
rule_delete(reg, rules, i) ==
    [rules |-> Without(rules, i), reg |-> rule_free(reg, rules[i])]

\* the size of a table name (TABLE_NAME_SIZE), scaled down
TABLE_NAME_SIZE == 4

\* strcspn(s, ":"): the bytes of s before the first ':'
RECURSIVE strcspn_colon(_)
strcspn_colon(s) ==
    IF s = <<>> \/ s[1] = 58 THEN 0 ELSE 1 + strcspn_colon(Tail(s))

\* a relay table without a table (rlt->rlt_table == NULL)
NullTable == [conf |-> [name |-> <<0>>]]

\* rule_settable(rules, rlt).  Of a rule, the fields it reads and writes:
\* rule_tablename, and rule_table, the relay table bound (its rlt_id, 0 for
\* NULL)
rule_settable(rules, rlt) ==
    IF rlt.rlt_table = NullTable
       \/ Len(rlt.rlt_table.conf.name) >= TABLE_NAME_SIZE
    THEN rules
    ELSE LET name  == rlt.rlt_table.conf.name
             pname == SubSeq(name, 1, strcspn_colon(name))
         IN  [i \in 1 .. Len(rules) |->
                IF rules[i].rule_tablename # <<>>
                   /\ pname = rules[i].rule_tablename
                THEN [rules[i] EXCEPT !.rule_table = rlt.rlt_id]
                ELSE [rules[i] EXCEPT !.rule_table = 0]]

\* a variant that tests the direction of URL keys only
rule_add_kv_url(rule, kv, rulefile) ==
    LET key == IF kv.kv_option = "KEY_OPTION_LOG" /\ kv.kv_key = KvNull
                  /\ ~rulefile.given
               THEN <<42>> ELSE kv.kv_key
        bad == kv.kv_type = "KEY_TYPE_URL"
               /\ rule.rule_dir # "RELAY_DIR_REQUEST"
        f1  == IF kv.kv_value # KvNull
                  /\ \E i \in 1 .. Len(kv.kv_value) : kv.kv_value[i] = 36
               THEN {"KV_FLAG_MACRO"} ELSE {}
        f2  == IF key # KvNull
                  /\ \E i \in 1 .. Len(key) : key[i] \in {42, 63, 91}
               THEN {"KV_FLAG_GLOBBING"} ELSE {}
    IN  [fail |-> bad,
         kv |-> IF bad THEN [kv EXCEPT !.kv_key = key]
                ELSE [kv EXCEPT !.kv_key = key,
                                !.kv_flags = @ \cup f1 \cup f2]]

\* the first loop of rule_add over the kv patterns of the rule
rule_add_kv(rule, kv, rulefile) ==
    LET key == IF kv.kv_option = "KEY_OPTION_LOG" /\ kv.kv_key = KvNull
                  /\ ~rulefile.given
               THEN <<42>> ELSE kv.kv_key
        bad == kv.kv_type \in {"KEY_TYPE_QUERY", "KEY_TYPE_PATH",
                               "KEY_TYPE_URL"}
               /\ rule.rule_dir # "RELAY_DIR_REQUEST"
        f1  == IF kv.kv_value # KvNull
                  /\ \E i \in 1 .. Len(kv.kv_value) : kv.kv_value[i] = 36
               THEN {"KV_FLAG_MACRO"} ELSE {}
        f2  == IF key # KvNull
                  /\ \E i \in 1 .. Len(key) : key[i] \in {42, 63, 91}
               THEN {"KV_FLAG_GLOBBING"} ELSE {}
    IN  [fail |-> bad,
         kv |-> IF bad THEN [kv EXCEPT !.kv_key = key]
                ELSE [kv EXCEPT !.kv_key = key,
                                !.kv_flags = @ \cup f1 \cup f2]]

\* the fgets() loop of rule_add from line i of the rule file; failat is the
\* line at which an allocation fails (0: none), how names the allocation
RECURSIVE rule_add_lines(_, _, _, _, _, _, _)
rule_add_lines(reg, rules, rule, lines, i, failat, how) ==
    IF i > Len(lines) THEN [ret |-> 0, rules |-> rules, reg |-> reg]
    ELSE IF lines[i] = <<>> \/ lines[i][1] = 35
    THEN rule_add_lines(reg, rules, rule, lines, i + 1, failat, how)
    ELSE LET inh == rule_inherit(reg, rule, ~(failat = i /\ how = "calloc"))
         IN
         IF ~inh.ok THEN [ret |-> -1, rules |-> rules, reg |-> reg]
         ELSE IF failat = i /\ how = "strdup"
         THEN [ret |-> -1, rules |-> rules,
               reg |-> rule_free(inh.reg, inh.r)]
         ELSE LET r == [inh.r EXCEPT
                          !.rule_kv = [t \in KeyTypes |->
                                          IF inh.r.rule_kv[t].kv_type = t
                                          THEN [inh.r.rule_kv[t] EXCEPT
                                                  !.kv_key = lines[i]]
                                          ELSE inh.r.rule_kv[t]]]
              IN  rule_add_lines(inh.reg, Append(rules, r), rule, lines,
                                 i + 1, failat, how)

\* rule_add(proto, rule, rulefile).  rulefile is [given, opens, lines];
\* the result: ret, proto->rules, the registries, and rule, which is still
\* allocated unless freed is TRUE
rule_add(reg, rules, rule, rulefile, failat, how) ==
    LET kvs  == [t \in KeyTypes |->
                   IF rule.rule_kv[t].kv_type = t
                   THEN rule_add_kv(rule, rule.rule_kv[t], rulefile)
                   ELSE [fail |-> FALSE, kv |-> rule.rule_kv[t]]]
        rule1 == [rule EXCEPT !.rule_kv = [t \in KeyTypes |-> kvs[t].kv]]
    IN  IF \E t \in KeyTypes : kvs[t].fail
        THEN [ret |-> -1, rules |-> rules, reg |-> reg, rule |-> rule1,
              freed |-> FALSE, listed |-> FALSE]
        ELSE IF ~rulefile.given
        THEN [ret |-> 0, rules |-> Append(rules, rule1), reg |-> reg,
              rule |-> rule1, freed |-> FALSE, listed |-> TRUE]
        ELSE IF ~rulefile.opens
        THEN [ret |-> -1, rules |-> rules, reg |-> reg, rule |-> rule1,
              freed |-> FALSE, listed |-> FALSE]
        ELSE LET l == rule_add_lines(reg, rules, rule1, rulefile.lines, 1,
                                     failat, how)
             IN  IF l.ret = -1
                 THEN [ret |-> -1, rules |-> l.rules, reg |-> l.reg,
                       rule |-> rule1, freed |-> FALSE, listed |-> FALSE]
                 ELSE [ret |-> 0, rules |-> l.rules,
                       reg |-> rule_free(l.reg, rule1), rule |-> rule1,
                       freed |-> TRUE, listed |-> FALSE]

(***************************************************************************)
(* Tables (table_findbyconf).  A table is [conf, sendbuf] with conf the    *)
(* struct table_config [id, rdrid, flags, check, name] and sendbuf a       *)
(* string or the NULL pointer.  A pointer into env->sc_tables is a         *)
(* position, 0 the NULL pointer.                                           *)
(***************************************************************************)
\* the most tables env->sc_tables is grown to
MaxTables == 2

\* the copy a (resp. b) of table_findbyconf: id, rdrid and the flags
\* F_USED and F_BACKUP cleared
table_conf_masked(conf) ==
    [conf EXCEPT !.id = 0, !.rdrid = 0, !.flags = @ \ {"F_USED", "F_BACKUP"}]

\* a variant that does not look at the send buffers
RECURSIVE table_findbyconf_nosendbuf(_, _, _)
table_findbyconf_nosendbuf(tables, tb, i) ==
    IF i > Len(tables) THEN 0
    ELSE IF table_conf_masked(tb.conf) = table_conf_masked(tables[i].conf)
    THEN i
    ELSE table_findbyconf_nosendbuf(tables, tb, i + 1)

\* table_findbyconf(env, tb): the TAILQ_FOREACH from table i on
RECURSIVE table_findbyconf(_, _, _)
table_findbyconf(tables, tb, i) ==
    IF i > Len(tables) THEN 0
    ELSE LET a == table_conf_masked(tb.conf)
             b == table_conf_masked(tables[i].conf)
         IN  IF a = b
                /\ \/ tb.sendbuf = KvNull /\ tables[i].sendbuf = KvNull
                   \/ /\ tb.sendbuf # KvNull /\ tables[i].sendbuf # KvNull
                      /\ tb.sendbuf = tables[i].sendbuf
             THEN i
             ELSE table_findbyconf(tables, tb, i + 1)

(***************************************************************************)
(* socket_rlimit(maxfd).  rl is the struct rlimit [rlim_cur, rlim_max] of  *)
(* RLIMIT_NOFILE.  rlim_t is unsigned; it is modelled sixteen bits wide,   *)
(* with RLIM_INFINITY its largest value.                                   *)
(***************************************************************************)
RLIM_INFINITY == 65535

\* the largest hard limit drawn
MaxNofile == 4

\* the cast (rlim_t)maxfd of an int
rlim_t(n) == n % (RLIM_INFINITY + 1)

MAX(a, b) == IF a > b THEN a ELSE b

\* setrlimit(): EINVAL when the soft limit asked for exceeds the hard limit
setrlimit(rl) == IF rl.rlim_cur > rl.rlim_max THEN -1 ELSE 0

\* socket_rlimit: asked is what it hands to setrlimit(), fatal whether it
\* ends in fatal(), rl the limit of the process afterwards
socket_rlimit(maxfd, rl) ==
    LET asked == [rl EXCEPT !.rlim_cur =
                     IF maxfd = -1 THEN rl.rlim_max
                     ELSE MAX(rl.rlim_max, rlim_t(maxfd))]
    IN  [asked |-> asked,
         fatal |-> setrlimit(asked) = -1,
         rl    |-> IF setrlimit(asked) = -1 THEN rl ELSE asked]

(***************************************************************************)
(* accept_reserve(sockfd, addr, addrlen, reserve, counter).  dtablecount   *)
(* is getdtablecount(), the descriptors the process has open; accepted is  *)
(* what accept() would return, -1 on failure.                              *)
(***************************************************************************)
\* getdtablesize(): the descriptor limit of the process
DtableSize == 4

\* a variant that refuses only above the limit
accept_reserve_gt(reserve, counter, dtablecount, accepted) ==
    IF dtablecount + reserve + counter > DtableSize
    THEN [ret |-> -1, errno |-> "EMFILE", called |-> FALSE,
          counter |-> counter]
    ELSE IF accepted > -1
    THEN [ret |-> accepted, errno |-> "", called |-> TRUE,
          counter |-> counter + 1]
    ELSE [ret |-> accepted, errno |-> "accept", called |-> TRUE,
          counter |-> counter]

\* the result: ret, errno, whether accept() was called, and *counter
accept_reserve(reserve, counter, dtablecount, accepted) ==
    IF dtablecount + reserve + counter >= DtableSize
    THEN [ret |-> -1, errno |-> "EMFILE", called |-> FALSE,
          counter |-> counter]
    ELSE IF accepted > -1
    THEN [ret |-> accepted, errno |-> "", called |-> TRUE,
          counter |-> counter + 1]
    ELSE [ret |-> accepted, errno |-> "accept", called |-> TRUE,
          counter |-> counter]

(***************************************************************************)
(* State                                                                   *)
(***************************************************************************)
VARIABLES
    ps_state,     \* the parent: "init", "running" or "exited"
    exit_status,  \* the parent's exit status once exited, -1 before
    env,          \* the parent's in-memory configuration
    sc_reload,    \* env->sc_reload, the reload_pending counter
    chan_pw,      \* parent -> worker queues
    chan_wp,      \* worker -> parent queues
    alive,        \* which worker processes run
    ca_env,       \* per CA instance: [relays, pkeys]
    rl_env,       \* per relay instance: [relays, launched]
    rl_wait,      \* per relay instance: the key operation it is blocked in
    chan_rc,      \* chan_rc[i][j]: relay i -> CA j
    chan_cr,      \* chan_cr[j][i]: CA j -> relay i
    sent,         \* history: the parent's writes of the current round
    round,        \* history: the current configuration round
    n_reload,     \* history: calls of parent_reload
    nreq,         \* requests issued by the environment
    nops,         \* key operations asked by the TLS library
    ca_last,      \* history: the last request ca_dispatch_relay handled
    rl_last,      \* history: per relay, how its last key operation ended
    last_chld,    \* history: the children the last SIGCHLD handler reaped
    exit_by,      \* history: the path on which the parent exited
    kv_tree,      \* a kvtree (struct kvtree)
    kv_look,      \* history: the last key looked up in it, and what was found
    kv_del,       \* history: the last node deleted from it, and the tree
                  \* before
    rule_list,    \* proto->rules, the rules of a protocol in order
    rule_held,    \* the rules allocated outside the list (parser, rule file)
    rule_refs,    \* the label and tag registries: reference count per id
    sc_tables,    \* env->sc_tables, the tables in list order
    tb_found,     \* history: the last table looked up in the list as it is
    nofile,       \* RLIMIT_NOFILE of the process: [rlim_cur, rlim_max]
    nofile_req,   \* history: the last call of socket_rlimit
    fds,          \* the descriptor table of the process: "free",
                  \* "listen", "inflight" (accepted, not yet a session)
                  \* or "session"
    inflight,     \* the counter of accepted connections that are not yet
                  \* sessions (*counter)
    acc_last,     \* history: the last call of accept_reserve
    msg_last      \* history: the last message a handler was given on its
                  \* own, and the handler's result

\* the daemon's processes and their channels
procvars == <<ps_state, exit_status, env, sc_reload, chan_pw, chan_wp, alive,
              ca_env, rl_env, rl_wait, chan_rc, chan_cr, sent, round,
              n_reload, nreq, nops, ca_last, rl_last, last_chld, exit_by>>

\* the data structures the library functions of relayd.c work on
kvvars == <<kv_tree, kv_look, kv_del>>

rulevars == <<rule_list, rule_held, rule_refs>>

tablevars == <<sc_tables, tb_found>>

rlimvars == <<nofile, nofile_req>>

acceptvars == <<fds, inflight, acc_last>>

msgvars == <<msg_last>>

libvars == <<kvvars, rulevars, tablevars, rlimvars, acceptvars, msgvars>>

vars == <<procvars, libvars>>

Hce == <<"PROC_HCE", 0>>

Pfe == <<"PROC_PFE", 0>>

Relay(i) == <<"PROC_RELAY", i>>

Ca(i) == <<"PROC_CA", i>>

NoWait == [waiting |-> FALSE, cmd |-> "", rsa |-> [ex_data |-> <<>>, d |-> 0]]

NoRound(kind) ==
    [kind |-> kind, load_ret |-> 0, cfg_ret |-> 0, acks |-> 0,
     start_at |-> <<>>, conf |-> EmptyConf, prev |-> EmptyConf]

NoKeyop ==
    [n |-> 0, ca |-> 0, found |-> FALSE, fatal |-> FALSE, res |-> 0,
     req |-> [type |-> "", short |-> FALSE,
              cko |-> [cko_id |-> 0, cko_proc |-> 0, cko_flen |-> 0,
                       cko_tlen |-> 0, cko_padding |-> 0],
              data |-> <<>>],
     pkey |-> NullPkey, out |-> <<>>]

NoResult ==
    [n |-> 0, how |-> "", ret |-> 0, to |-> <<>>, via |-> "", cmd |-> "",
     rtype |-> "", rsa |-> [ex_data |-> <<>>, d |-> 0]]

\* how: "parent_shutdown", "fatalx" or "exit"; on: the signal or message
\* whose handler took that path ("main" before the event loop)
NoExit == [how |-> "", on |-> ""]

NoLook == [n |-> 0, key |-> <<>>, glob |-> 0, exact |-> 0]

NoDel == [n |-> 0, kv |-> 0, before |-> <<>>]

KvInit ==
    /\ kv_tree = <<>>
    /\ kv_look = NoLook
    /\ kv_del = NoDel

ProcInit ==
    /\ ps_state = "init"
    /\ exit_status = -1
    /\ env = EmptyConf
    /\ sc_reload = 0
    /\ chan_pw = [w \in Workers |-> <<>>]
    /\ chan_wp = [w \in Workers |-> <<>>]
    /\ alive = [w \in Workers |-> TRUE]
    /\ ca_env = [i \in Relays |-> [relays |-> <<>>, pkeys |-> <<>>]]
    /\ rl_env = [i \in Relays |-> [relays |-> <<>>, launched |-> FALSE]]
    /\ rl_wait = [i \in Relays |-> NoWait]
    /\ chan_rc = [i \in Relays |-> [j \in Relays |-> <<>>]]
    /\ chan_cr = [j \in Relays |-> [i \in Relays |-> <<>>]]
    /\ sent = <<>>
    /\ round = NoRound("none")
    /\ n_reload = 0
    /\ nreq = 0
    /\ nops = 0
    /\ ca_last = NoKeyop
    /\ rl_last = [i \in Relays |-> NoResult]
    /\ last_chld = {}
    /\ exit_by = NoExit

RuleInit ==
    /\ rule_list = <<>>
    /\ rule_held = <<>>
    /\ rule_refs = [labels |-> [id \in RuleIds |-> 0],
                    tags |-> [id \in RuleIds |-> 0]]

NoFound ==
    [n |-> 0, ret |-> 0,
     tb |-> [conf |-> [id |-> 0, rdrid |-> 0, flags |-> {}, check |-> "",
                       name |-> ""],
             sendbuf |-> KvNull]]

TableInit ==
    /\ sc_tables = <<>>
    /\ tb_found = NoFound

NoRlimit ==
    [n |-> 0, maxfd |-> 0, fatal |-> FALSE,
     before |-> [rlim_cur |-> 0, rlim_max |-> 0],
     asked |-> [rlim_cur |-> 0, rlim_max |-> 0]]

\* the limits a process may start with: the soft limit is at most the
\* hard limit
Limits ==
    { rl \in [rlim_cur : 0 .. MaxNofile,
              rlim_max : (0 .. MaxNofile) \cup {RLIM_INFINITY}] :
      rl.rlim_cur <= rl.rlim_max }

RlimitInit ==
    /\ nofile = [rlim_cur |-> 1, rlim_max |-> 2]
    /\ nofile_req = NoRlimit

NoAccept ==
    [n |-> 0, reserve |-> 0, dtablecount |-> 0, before |-> 0, ret |-> 0,
     errno |-> "", called |-> FALSE, after |-> 0]

AcceptInit ==
    /\ fds = [fd \in 0 .. DtableSize - 1 |->
                IF fd = 0 THEN "listen" ELSE "free"]
    /\ inflight = 0
    /\ acc_last = NoAccept

\* who: the handler ("parent", "ca" or "relay"); at: the instance of the
\* handler; from: the instance whose channel the message came on; with:
\* the handler's other input; r: its result
NoMsg ==
    [n |-> 0, who |-> "", at |-> 0, from |-> 0, with |-> "",
     imsg |-> NoKeyop.req, r |-> [ret |-> 0]]

MsgInit == msg_last = NoMsg

Init ==
    /\ ProcInit
    /\ KvInit
    /\ RuleInit
    /\ TableInit
    /\ RlimitInit
    /\ AcceptInit
    /\ MsgInit

(***************************************************************************)
(* The parent's steps                                                      *)
(***************************************************************************)
\* the writes of log reach the socket pair of the worker they name
Deliver(chan, log) ==
    [w \in DOMAIN chan |->
        chan[w] \o
        LET mine == SelectSeq(log, LAMBDA m : m.to = w) IN
        [i \in 1 .. Len(mine) |->
            [type |-> mine[i].type, data |-> mine[i].data]]]

\* parent_shutdown(): purge, proc_kill(), exit(0); fatalx(): exit(1).
\* The workers are killed and every socket pair is closed with them.
ParentExit(status, how, on) ==
    /\ ps_state' = "exited"
    /\ exit_status' = status
    /\ exit_by' = [how |-> how, on |-> on]
    /\ env' = config_purge(env, privsep_process, CONFIG_ALL)
    /\ alive' = [w \in Workers |-> FALSE]
    /\ chan_pw' = [w \in Workers |-> <<>>]
    /\ chan_wp' = [w \in Workers |-> <<>>]
    /\ chan_rc' = [i \in Relays |-> [j \in Relays |-> <<>>]]
    /\ chan_cr' = [j \in Relays |-> [i \in Relays |-> <<>>]]
    /\ rl_wait' = [i \in Relays |-> NoWait]
    /\ UNCHANGED <<sc_reload, sent, round, ca_env, rl_env, nops, ca_last,
                   rl_last>>

\* the effect of a handler of the parent whose result is P; wp is what is
\* left to read from the workers
ParentApply(P, wp, on) ==
    /\ UNCHANGED libvars
    /\ n_reload' = n_reload + (IF P.rl.called THEN 1 ELSE 0)
    /\ IF P.shutdown THEN ParentExit(0, "parent_shutdown", on)
       ELSE IF P.ret = -1 THEN ParentExit(1, "fatalx", on)
       ELSE /\ UNCHANGED <<ps_state, exit_status, alive, exit_by>>
            /\ UNCHANGED <<ca_env, rl_env, rl_wait, chan_rc, chan_cr, nops,
                           ca_last, rl_last>>
            /\ chan_wp' = wp
            /\ env' = P.env
            /\ sc_reload' = P.sc_reload
            /\ chan_pw' = Deliver(chan_pw, P.log)
            /\ sent' = IF P.rl.taken THEN P.log ELSE sent \o P.log
            /\ round' =
                 IF P.rl.taken
                 THEN [kind |-> IF P.sc_reload > 0 THEN "reload" ELSE "reset",
                       load_ret |-> P.rl.load_ret, cfg_ret |-> P.rl.cfg_ret,
                       acks |-> 0, start_at |-> <<>>, conf |-> P.rl.conf,
                       prev |-> env]
                 ELSE IF P.done
                 THEN [round EXCEPT
                         !.acks = @ + 1,
                         !.start_at = IF P.log # <<>>
                                      THEN Append(@, round.acks + 1) ELSE @]
                 ELSE round

WorkerVars == <<ca_env, rl_env, rl_wait, chan_rc, chan_cr, nops, ca_last,
                rl_last>>

\* main(): load_config(), fork the workers, parent_configure()
Main ==
    /\ ps_state = "init"
    /\ \E file \in ConfFiles, pf_ok \in BOOLEAN :
         LET ld  == load_config(file, env)
             cfg == parent_configure(ld.env, pf_ok)
         IN  IF ld.ret = -1 \/ cfg.ret = -1
             THEN ParentExit(1, IF ld.ret = -1 THEN "exit" ELSE "fatalx",
                             "main")
             ELSE /\ ps_state' = "running"
                  /\ env' = cfg.env
                  /\ sc_reload' = cfg.sc_reload
                  /\ chan_pw' = Deliver(chan_pw, cfg.log)
                  /\ sent' = cfg.log
                  /\ round' = [NoRound("startup") EXCEPT !.conf = ld.env]
                  /\ UNCHANGED <<exit_status, alive, chan_wp, exit_by>>
                  /\ UNCHANGED WorkerVars
    /\ UNCHANGED <<n_reload, nreq, last_chld>>
    /\ UNCHANGED libvars

\* a variant whose SIGCHLD branch reaps the children without setting die
parent_sig_handler_reap_only(sig, nchild, e, reload, file, pf_ok) ==
    CASE sig \in {"SIGTERM", "SIGINT"} ->
            [ret |-> 0, env |-> e, sc_reload |-> reload, log |-> <<>>,
             shutdown |-> TRUE, rl |-> NoReload(e), done |-> FALSE]
      [] sig = "SIGCHLD" ->
            [ret |-> 0, env |-> e, sc_reload |-> reload, log |-> <<>>,
             shutdown |-> FALSE, rl |-> NoReload(e), done |-> FALSE]
      [] sig = "SIGHUP" ->
            Reloaded(parent_reload(e, reload, CONFIG_RELOAD, file, pf_ok))
      [] sig = "SIGPIPE" ->
            [ret |-> 0, env |-> e, sc_reload |-> reload, log |-> <<>>,
             shutdown |-> FALSE, rl |-> NoReload(e), done |-> FALSE]
      [] OTHER -> Rejected(e, reload)

\* parent_sig_handler(sig): nchild is the number of children waitpid() reaps
parent_sig_handler(sig, nchild, e, reload, file, pf_ok) ==
    CASE sig \in {"SIGTERM", "SIGINT"} ->
            [ret |-> 0, env |-> e, sc_reload |-> reload, log |-> <<>>,
             shutdown |-> TRUE, rl |-> NoReload(e), done |-> FALSE]
      [] sig = "SIGCHLD" ->
            [ret |-> 0, env |-> e, sc_reload |-> reload, log |-> <<>>,
             shutdown |-> nchild > 0, rl |-> NoReload(e), done |-> FALSE]
      [] sig = "SIGHUP" ->
            Reloaded(parent_reload(e, reload, CONFIG_RELOAD, file, pf_ok))
      [] sig = "SIGPIPE" ->
            [ret |-> 0, env |-> e, sc_reload |-> reload, log |-> <<>>,
             shutdown |-> FALSE, rl |-> NoReload(e), done |-> FALSE]
      [] OTHER -> Rejected(e, reload)

Dead == {w \in DOMAIN alive : ~alive[w]}

SigHup ==
    /\ ps_state = "running"
    /\ nreq < MaxRequests
    /\ nreq' = nreq + 1
    /\ \E file \in ConfFiles, pf_ok \in BOOLEAN :
         ParentApply(parent_sig_handler("SIGHUP", 0, env, sc_reload,
                                        file, pf_ok), chan_wp, "SIGHUP")
    /\ UNCHANGED last_chld

SigTerm ==
    /\ ps_state = "running"
    /\ nreq < MaxRequests
    /\ nreq' = nreq + 1
    /\ \E sig \in {"SIGTERM", "SIGINT"} :
         ParentApply(parent_sig_handler(sig, Cardinality(Dead), env,
                                        sc_reload, [ok |-> FALSE,
                                        conf |-> FileA], TRUE), chan_wp, sig)
    /\ UNCHANGED last_chld

\* SIGCHLD: raised by the kernel when a child has exited; waitpid() then
\* reaps every dead child.  The environment may also raise it when there is
\* no child to reap (a signal left pending after an earlier handler reaped
\* the child, or sent by hand).
SigChld ==
    /\ ps_state = "running"
    /\ Dead # {} \/ nreq < MaxRequests
    /\ nreq' = IF Dead = {} THEN nreq + 1 ELSE nreq
    /\ last_chld' = Dead
    /\ ParentApply(parent_sig_handler("SIGCHLD", Cardinality(Dead), env,
                                      sc_reload, [ok |-> FALSE,
                                      conf |-> FileA], TRUE), chan_wp,
                   "SIGCHLD")

ParentDispatchPfe ==
    /\ ps_state = "running"
    /\ chan_wp[Pfe] # <<>>
    /\ \E file \in ConfFiles, pf_ok \in BOOLEAN :
         ParentApply(parent_dispatch_pfe(Head(chan_wp[Pfe]), env, sc_reload,
                                         file, pf_ok),
                   [chan_wp EXCEPT ![Pfe] = Tail(@)],
                   Head(chan_wp[Pfe]).type)
    /\ UNCHANGED <<nreq, last_chld>>

ParentDispatchHce ==
    /\ ps_state = "running"
    /\ chan_wp[Hce] # <<>>
    /\ ParentApply(parent_dispatch_hce(Head(chan_wp[Hce]), env, sc_reload),
                   [chan_wp EXCEPT ![Hce] = Tail(@)],
                   Head(chan_wp[Hce]).type)
    /\ UNCHANGED <<nreq, last_chld>>

ParentDispatchRelay(i) ==
    /\ ps_state = "running"
    /\ chan_wp[Relay(i)] # <<>>
    /\ ParentApply(parent_dispatch_relay(Head(chan_wp[Relay(i)]), env,
                                         sc_reload, ""),
                   [chan_wp EXCEPT ![Relay(i)] = Tail(@)],
                   Head(chan_wp[Relay(i)]).type)
    /\ UNCHANGED <<nreq, last_chld>>

ParentDispatchCa(i) ==
    /\ ps_state = "running"
    /\ chan_wp[Ca(i)] # <<>>
    /\ ParentApply(parent_dispatch_ca(Head(chan_wp[Ca(i)]), env, sc_reload),
                   [chan_wp EXCEPT ![Ca(i)] = Tail(@)],
                   Head(chan_wp[Ca(i)]).type)
    /\ UNCHANGED <<nreq, last_chld>>

(***************************************************************************)
(* The workers' steps.  HCE, PFE and the relays take the parent's          *)
(* messages one at a time and acknowledge CFG_DONE; the control socket     *)
(* of the PFE forwards the operator's requests to the parent.              *)
(***************************************************************************)
CfgDoneAck == [type |-> "IMSG_CFG_DONE", data |-> {}]

PfeRequests ==
    {[type |-> "IMSG_CTL_RESET", data |-> CONFIG_ALL],
     [type |-> "IMSG_CTL_RESET", data |-> {"TABLES"}],
     [type |-> "IMSG_CTL_RELOAD", data |-> {}],
     [type |-> "IMSG_CTL_SHUTDOWN", data |-> {}]}

PfeControl ==
    /\ alive[Pfe]
    /\ nreq < MaxRequests
    /\ nreq' = nreq + 1
    /\ \E m \in PfeRequests : chan_wp' = [chan_wp EXCEPT ![Pfe] = Append(@, m)]
    /\ UNCHANGED <<ps_state, exit_status, env, sc_reload, chan_pw, alive,
                   sent, round, n_reload, last_chld, exit_by>>
    /\ UNCHANGED libvars
    /\ UNCHANGED WorkerVars

WorkerDispatchParent(w) ==
    /\ w \in {Hce, Pfe}
    /\ alive[w]
    /\ chan_pw[w] # <<>>
    /\ chan_pw' = [chan_pw EXCEPT ![w] = Tail(@)]
    /\ chan_wp' = IF Head(chan_pw[w]).type = "IMSG_CFG_DONE"
                  THEN [chan_wp EXCEPT ![w] = Append(@, CfgDoneAck)]
                  ELSE chan_wp
    /\ UNCHANGED <<ps_state, exit_status, env, sc_reload, alive, sent, round,
                   n_reload, nreq,
                   last_chld, exit_by>>
    /\ UNCHANGED libvars
    /\ UNCHANGED WorkerVars

\* the relay's handler of the parent's messages (relay_dispatch_parent)
relay_dispatch_parent(renv, imsg) ==
    CASE imsg.type = "IMSG_CFG_RELAY" ->
            [renv EXCEPT !.relays = Append(@, imsg.data)]
      [] imsg.type = "IMSG_CTL_START" ->
            [renv EXCEPT !.launched = TRUE]
      [] imsg.type = "IMSG_CTL_RESET" ->
            IF "RELAYS" \in (ps_what("PROC_RELAY") \cap imsg.data)
            THEN [relays |-> <<>>, launched |-> FALSE]
            ELSE renv
      [] OTHER -> renv

RelayDispatchParent(i) ==
    /\ alive[Relay(i)]
    /\ ~rl_wait[i].waiting
    /\ chan_pw[Relay(i)] # <<>>
    /\ chan_pw' = [chan_pw EXCEPT ![Relay(i)] = Tail(@)]
    /\ rl_env' = [rl_env EXCEPT
                    ![i] = relay_dispatch_parent(@, Head(chan_pw[Relay(i)]))]
    /\ chan_wp' = IF Head(chan_pw[Relay(i)]).type = "IMSG_CFG_DONE"
                  THEN [chan_wp EXCEPT ![Relay(i)] = Append(@, CfgDoneAck)]
                  ELSE chan_wp
    /\ UNCHANGED <<ps_state, exit_status, env, sc_reload, alive, sent, round,
                   n_reload, nreq,
                   last_chld, exit_by>>
    /\ UNCHANGED libvars
    /\ UNCHANGED <<ca_env, rl_wait, chan_rc, chan_cr, nops, ca_last, rl_last>>

CaDispatchParent(i) ==
    /\ alive[Ca(i)]
    /\ chan_pw[Ca(i)] # <<>>
    /\ chan_pw' = [chan_pw EXCEPT ![Ca(i)] = Tail(@)]
    /\ LET r == ca_dispatch_parent(ca_env[i], Head(chan_pw[Ca(i)])) IN
         /\ ca_env' = [ca_env EXCEPT ![i] = r.cenv]
         /\ alive' = IF r.fatal \/ r.ret = -1
                     THEN [alive EXCEPT ![Ca(i)] = FALSE] ELSE alive
         /\ chan_wp' = IF r.ack
                       THEN [chan_wp EXCEPT ![Ca(i)] = Append(@, CfgDoneAck)]
                       ELSE chan_wp
    /\ UNCHANGED <<ps_state, exit_status, env, sc_reload, sent, round,
                   n_reload, nreq,
                   last_chld, exit_by>>
    /\ UNCHANGED libvars
    /\ UNCHANGED <<rl_env, rl_wait, chan_rc, chan_cr, nops, ca_last, rl_last>>

\* CA j takes the next request of relay i
CaDispatchRelay(j, i) ==
    /\ alive[Ca(j)]
    /\ chan_rc[i][j] # <<>>
    /\ chan_rc' = [chan_rc EXCEPT ![i][j] = Tail(@)]
    /\ \E ub \in UbOutcomes :
       LET imsg == Head(chan_rc[i][j])
           r    == ca_dispatch_relay(ca_env[j], imsg, ub)
       IN
         /\ alive' = IF r.fatal \/ r.ret = -1
                     THEN [alive EXCEPT ![Ca(j)] = FALSE] ELSE alive
         /\ chan_cr' =
              IF r.out # <<>> /\ r.out[1].proc \in Relays
              THEN [chan_cr EXCEPT ![j][r.out[1].proc] =
                                        Append(@, r.out[1].msg)]
              ELSE chan_cr
         /\ ca_last' =
              [n |-> 1, ca |-> j, fatal |-> r.fatal, res |-> r.res,
               found |-> pkey_find(ca_env[j].pkeys, imsg.cko.cko_id)
                            # NullPkey,
               pkey |-> pkey_find(ca_env[j].pkeys, imsg.cko.cko_id),
               req |-> imsg, out |-> r.out]
    /\ UNCHANGED <<ps_state, exit_status, env, sc_reload, chan_pw, chan_wp,
                   sent, round, n_reload, nreq,
                   last_chld, exit_by>>
    /\ UNCHANGED libvars
    /\ UNCHANGED <<ca_env, rl_env, rl_wait, nops, rl_last>>

(***************************************************************************)
(* The relay's TLS library asks for a private-key operation.               *)
(***************************************************************************)
\* the RSA handles of a launched relay: one per configured key, carrying
\* the objid, and the keys generated in this process
Handles(renv) ==
    { [ex_data |-> <<renv.relays[k].ssl_keyid>>, d |-> 0] :
        k \in { x \in 1 .. Len(renv.relays) :
                  /\ renv.relays[x].flags \cap {"F_SSL", "F_SSLCLIENT"} # {}
                  /\ renv.relays[x].ssl_key_len # 0 } }
    \cup
    { [ex_data |-> <<renv.relays[k].ssl_cakeyid>>, d |-> 0] :
        k \in { x \in 1 .. Len(renv.relays) :
                  "F_SSLINSPECT" \in renv.relays[x].flags } }
    \cup { [ex_data |-> <<>>, d |-> 7] }

FromInputs == { <<1>>, <<1, 2>> }

KeyopCmds == {"IMSG_CA_PRIVENC", "IMSG_CA_PRIVDEC"}

RelayKeyOp(i) ==
    /\ alive[Relay(i)]
    /\ rl_env[i].launched
    /\ ~rl_wait[i].waiting
    /\ nops < MaxKeyOps
    /\ nops' = nops + 1
    /\ \E rsa \in Handles(rl_env[i]), cmd \in KeyopCmds, from \in FromInputs :
         LET r   == rsae_priv(Len(from), from, rsa, 1, cmd)
             req == rsae_request(i, Len(from), from, rsa, 1, cmd)
         IN  IF r.via = "imsg"
             THEN /\ chan_rc' = [chan_rc EXCEPT ![i][proc_iev(i)] = @ \o req]
                  /\ rl_wait' = [rl_wait EXCEPT
                       ![i] = [waiting |-> TRUE, cmd |-> cmd, rsa |-> rsa]]
                  /\ UNCHANGED rl_last
             ELSE /\ rl_last' = [rl_last EXCEPT
                       ![i] = [n |-> 1, how |-> "return", ret |-> r.ret,
                               to |-> r.to, via |-> "local", cmd |-> cmd,
                               rtype |-> "", rsa |-> rsa]]
                  /\ UNCHANGED <<chan_rc, rl_wait>>
    /\ UNCHANGED <<ps_state, exit_status, env, sc_reload, chan_pw, chan_wp,
                   alive, sent, round, n_reload, nreq,
                   last_chld, exit_by>>
    /\ UNCHANGED libvars
    /\ UNCHANGED <<ca_env, rl_env, chan_cr, ca_last>>

\* the wait loop of rsae_send_imsg gets a message from the paired CA
RelayRecv(i) ==
    /\ alive[Relay(i)]
    /\ rl_wait[i].waiting
    /\ chan_cr[proc_iev(i)][i] # <<>>
    /\ chan_cr' = [chan_cr EXCEPT ![proc_iev(i)][i] = Tail(@)]
    /\ LET r == rsae_reply(rl_wait[i].cmd, Head(chan_cr[proc_iev(i)][i])) IN
         /\ rl_last' = [rl_last EXCEPT
              ![i] = [n |-> 1, how |-> IF r.fatal # "" THEN r.fatal
                                       ELSE "return",
                      ret |-> r.ret, to |-> r.to, via |-> "imsg",
                      cmd |-> rl_wait[i].cmd,
                      rtype |-> Head(chan_cr[proc_iev(i)][i]).type,
                      rsa |-> rl_wait[i].rsa]]
         /\ alive' = IF r.fatal # ""
                     THEN [alive EXCEPT ![Relay(i)] = FALSE] ELSE alive
         /\ rl_wait' = IF r.fatal # "" THEN rl_wait
                       ELSE [rl_wait EXCEPT ![i] = NoWait]
    /\ UNCHANGED <<ps_state, exit_status, env, sc_reload, chan_pw, chan_wp,
                   sent, round, n_reload, nreq,
                   last_chld, exit_by>>
    /\ UNCHANGED libvars
    /\ UNCHANGED <<ca_env, rl_env, chan_rc, nops, ca_last>>

\* imsg_read() fails (how = "imsg_read") or finds the pipe closed
RelayReadFail(i) ==
    /\ alive[Relay(i)]
    /\ rl_wait[i].waiting
    /\ chan_cr[proc_iev(i)][i] = <<>>
    /\ \E how \in {"imsg_read"} \cup
                  (IF alive[Ca(proc_iev(i))] THEN {} ELSE {"pipe closed"}) :
         rl_last' = [rl_last EXCEPT
              ![i] = [n |-> 1, how |-> how, ret |-> 0, to |-> <<>>,
                      via |-> "imsg", cmd |-> rl_wait[i].cmd, rtype |-> "",
                      rsa |-> rl_wait[i].rsa]]
    /\ alive' = [alive EXCEPT ![Relay(i)] = FALSE]
    /\ UNCHANGED <<ps_state, exit_status, env, sc_reload, chan_pw, chan_wp,
                   sent, round, n_reload, nreq,
                   last_chld, exit_by>>
    /\ UNCHANGED libvars
    /\ UNCHANGED <<ca_env, rl_env, rl_wait, chan_rc, chan_cr, nops, ca_last>>

Next ==
    \/ Main
    \/ SigHup
    \/ SigTerm
    \/ SigChld
    \/ PfeControl
    \/ ParentDispatchPfe
    \/ ParentDispatchHce
    \/ \E i \in Relays : ParentDispatchRelay(i)
    \/ \E i \in Relays : ParentDispatchCa(i)
    \/ \E w \in {Hce, Pfe} : WorkerDispatchParent(w)
    \/ \E i \in Relays : RelayDispatchParent(i)
    \/ \E i \in Relays : CaDispatchParent(i)
    \/ \E j \in Relays, i \in Relays : CaDispatchRelay(j, i)
    \/ \E i \in Relays : RelayKeyOp(i)
    \/ \E i \in Relays : RelayRecv(i)
    \/ \E i \in Relays : RelayReadFail(i)

Spec == Init /\ [][Next]_vars

(***************************************************************************)
(* The configuration fan-out and fan-in alone, with the event loops of the *)
(* parent and of the workers: a message that waits in a socket pair is     *)
(* eventually read by the process at its end.                              *)
(***************************************************************************)
\* the steps of the program: main() and the event loops
Dispatch ==
    \/ Main
    \/ ParentDispatchPfe
    \/ ParentDispatchHce
    \/ \E i \in Relays : ParentDispatchRelay(i)
    \/ \E i \in Relays : ParentDispatchCa(i)
    \/ \E w \in {Hce, Pfe} : WorkerDispatchParent(w)
    \/ \E i \in Relays : RelayDispatchParent(i)
    \/ \E i \in Relays : CaDispatchParent(i)

\* with the reloads the operator asks for by SIGHUP
ReloadNext ==
    \/ SigHup
    \/ Dispatch

\* the requests are finitely many, so the processes keep reading until
\* no message is left in any socket pair
ReloadSpec == Init /\ [][ReloadNext]_vars /\ WF_vars(Dispatch)

(***************************************************************************)
(* The kv-tree on its own: keys are added with kv_add and looked up with   *)
(* kv_find, with and without KV_FLAG_GLOBBING.                             *)
(***************************************************************************)
\* the bytes keys are made of: "A", "a", "\", and "*" in lookups
KeyBytesOf == {65, 97, 92, 42}

Strings(bytes, n) == UNION { [1 .. k -> bytes] : k \in 0 .. n }

RECURSIVE KvNodes(_, _)
KvNodes(keys, i) ==
    IF i > Len(keys) THEN 0
    ELSE 1 + Len(keys[i].kv_children) + KvNodes(keys, i + 1)

KvAdd ==
    /\ KvNodes(kv_tree, 1) < MaxKvNodes
    /\ \E key \in Strings(KeyBytesOf \ {42}, MaxKeyLen) :
         kv_tree' = kv_add(kv_tree, key, <<>>).keys
    /\ UNCHANGED <<kv_look, kv_del, procvars, msgvars, rulevars, tablevars, rlimvars,
                   acceptvars>>

KvFind ==
    /\ \E key \in Strings(KeyBytesOf, MaxKeyLen) :
         kv_look' =
            [n |-> 1, key |-> key,
             glob  |-> kv_find(kv_tree, [kv_key |-> key,
                                         kv_flags |-> {"KV_FLAG_GLOBBING"}]),
             exact |-> kv_find(kv_tree, [kv_key |-> key, kv_flags |-> {}])]
    /\ UNCHANGED <<kv_tree, kv_del, procvars, msgvars, rulevars, tablevars, rlimvars,
                   acceptvars>>

KvNext ==
    \/ KvAdd
    \/ KvFind

KvSpec == Init /\ [][KvNext]_vars

(***************************************************************************)
(* The kv-tree grown with kv_add, duplicates of a key becoming children of *)
(* its node, and emptied with kv_delete.                                   *)
(***************************************************************************)
\* the most nodes a tree is grown to before nodes are deleted
MaxKvGrown == 3

\* the keys added: "A" and "a" compare equal, "b" and "\" are others
GrowKeys == { <<65>>, <<97>>, <<98>>, <<92>> }

KvGrow ==
    /\ KvNodes(kv_tree, 1) < MaxKvGrown
    /\ \E key \in GrowKeys,
          value \in {<<>>, <<97>>} :
         kv_tree' = kv_add(kv_tree, key, value).keys
    /\ kv_del' = NoDel
    /\ UNCHANGED <<kv_look, procvars, msgvars, rulevars, tablevars, rlimvars,
                   acceptvars>>

\* kv is a node of the tree, as kv_find and RB_MIN return it
KvDelete ==
    /\ \E i \in 1 .. Len(kv_tree) :
        /\ kv_tree' = kv_delete(kv_tree, i)
        /\ kv_del' = [n |-> 1, kv |-> i, before |-> kv_tree]
    /\ UNCHANGED <<kv_look, procvars, msgvars, rulevars, tablevars, rlimvars,
                   acceptvars>>

KvDelNext ==
    \/ KvGrow
    \/ KvDelete

KvDelSpec == Init /\ [][KvDelNext]_vars

(***************************************************************************)
(* The kv-tree under kv_add, kv_set and kv_delete in any order; the last   *)
(* call, the tree before it and what it returned are kept in msg_last.     *)
(***************************************************************************)
KvCall(who, i, r) ==
    [n |-> 1, who |-> who, at |-> i, from |-> 0, with |-> "",
     imsg |-> NoKeyop.req, r |-> r]

KvTreeAdd ==
    /\ KvNodes(kv_tree, 1) < MaxKvGrown
    /\ \E key \in GrowKeys, value \in {<<>>, <<97>>} :
         LET a == kv_add(kv_tree, key, value) IN
         /\ kv_tree' = a.keys
         /\ msg_last' = KvCall("kv_add", 0,
                               [kv |-> a.kv, key |-> key, value |-> value,
                                kv_parent |-> kv_add_parent(kv_tree, key),
                                before |-> kv_tree])
    /\ UNCHANGED <<kv_look, kv_del, procvars, rulevars, tablevars, rlimvars,
                   acceptvars>>

\* kv is a node of the tree, as kv_find returns it
KvTreeSet ==
    /\ \E i \in 1 .. Len(kv_tree), value \in {<<>>, <<97>>, <<98>>},
          ok \in BOOLEAN :
         LET a == kv_set(kv_tree, i, value, ok) IN
         /\ kv_tree' = a.keys
         /\ msg_last' = KvCall("kv_set", i,
                               [ret |-> a.ret, value |-> value,
                                before |-> kv_tree])
    /\ UNCHANGED <<kv_look, kv_del, procvars, rulevars, tablevars, rlimvars,
                   acceptvars>>

KvTreeDelete ==
    /\ \E i \in 1 .. Len(kv_tree) :
         /\ kv_tree' = kv_delete(kv_tree, i)
         /\ msg_last' = KvCall("kv_delete", i, [before |-> kv_tree])
    /\ UNCHANGED <<kv_look, kv_del, procvars, rulevars, tablevars, rlimvars,
                   acceptvars>>

KvTreeNext ==
    \/ KvTreeAdd
    \/ KvTreeSet
    \/ KvTreeDelete

KvTreeSpec == Init /\ [][KvTreeNext]_vars

(***************************************************************************)
(* Properties of the configuration rounds                                  *)
(***************************************************************************)
NeedAcks == 2 + (2 * sc_prefork_relay)

\* the positions of sent that hold a write of the given type to worker w
SentTo(w, types) ==
    {k \in 1 .. Len(sent) : sent[k].to = w /\ sent[k].type \in types}

SentOf(types) == {k \in 1 .. Len(sent) : sent[k].type \in types}

EntityTypes ==
    {"IMSG_CFG_TABLE", "IMSG_CFG_RDR", "IMSG_CFG_PROTO", "IMSG_CFG_RULE",
     "IMSG_CFG_RELAY"}

\* C1: in a startup or reload round reload_pending starts at 2 + 2N and
\* falls by one per processed CFG_DONE; CTL_START goes to every worker
\* exactly once, in the step that processes acknowledgement number 2 + 2N,
\* and no CTL_START has been written while reload_pending > 0.
StartAfterAllAcks ==
    /\ round.kind \in {"startup", "reload"} =>
         /\ sc_reload + round.acks = NeedAcks
         /\ round.start_at = IF sc_reload = 0 THEN <<NeedAcks>> ELSE <<>>
         /\ \A w \in Workers :
              Cardinality(SentTo(w, {"IMSG_CTL_START"}))
                 = IF sc_reload = 0 THEN 1 ELSE 0
    /\ round.kind \in {"none", "reset"} =>
         /\ sc_reload = 0
         /\ SentOf({"IMSG_CTL_START"}) = {}

\* a reload round has collected its 2 + 2N acknowledgements
ReloadRoundStarted ==
    /\ round.kind = "reload"
    /\ round.acks = NeedAcks
    /\ sc_reload = 0
    /\ \A w \in Workers : SentTo(w, {"IMSG_CTL_START"}) # {}

\* C2: a call of parent_reload made while reload_pending > 0 leaves the
\* parent's configuration and reload_pending as they are and writes nothing
\* to any worker.
ReloadInProgressRejected ==
    [][ (n_reload' = n_reload + 1 /\ sc_reload > 0) =>
          /\ env' = env
          /\ sc_reload' = sc_reload
          /\ round' = round
          /\ Len(sent') = Len(sent)
          /\ \A w \in Workers : Len(chan_pw'[w]) = Len(chan_pw[w]) ]_vars

\* parent_reload has been called during the startup round and the round is
\* still the startup round
ReloadRejectedOnce ==
    /\ n_reload >= 1
    /\ round.kind = "startup"
    /\ sc_reload > 0
    /\ ps_state = "running"

\* C3: after a reload whose load_config returned -1 the parent holds the
\* configuration it held before the request and has written neither
\* CTL_RESET nor any CFG_* message.
FailedLoadKeepsOldConfig ==
    (round.kind = "reload" /\ round.load_ret = -1) =>
        /\ env = round.prev
        /\ SentOf({"IMSG_CTL_RESET", "IMSG_CFG_DONE"} \cup EntityTypes) = {}

\* C4: in a reload round, per worker, nothing is written before CTL_RESET,
\* every entity comes before CFG_DONE, and CTL_START comes after CFG_DONE.
ReloadOrderPerChannel ==
    round.kind = "reload" =>
      \A w \in Workers :
        /\ \A k \in SentTo(w, EntityTypes \cup {"IMSG_CFG_DONE"}) :
             \E r \in SentTo(w, {"IMSG_CTL_RESET"}) : r < k
        /\ \A k \in SentTo(w, EntityTypes) :
             /\ \A r \in SentTo(w, {"IMSG_CTL_RESET"}) : r < k
             /\ \A d \in SentTo(w, {"IMSG_CFG_DONE"}) : k < d
        /\ \A k \in SentTo(w, {"IMSG_CTL_START"}) :
             /\ \E d \in SentTo(w, {"IMSG_CFG_DONE"}) : d < k
             /\ \A d \in SentTo(w, {"IMSG_CFG_DONE", "IMSG_CTL_RESET"}
                                   \cup EntityTypes) : d < k

\* a reload round has re-sent a relay to some worker and started it
ReloadResentEntities ==
    /\ round.kind = "reload"
    /\ \E w \in Workers :
         /\ SentTo(w, {"IMSG_CFG_RELAY"}) # {}
         /\ SentTo(w, {"IMSG_CTL_START"}) # {}

Rank(type) ==
    CASE type = "IMSG_CFG_TABLE" -> 1
      [] type = "IMSG_CFG_RDR"   -> 2
      [] type = "IMSG_CFG_PROTO" -> 3
      [] type = "IMSG_CFG_RULE"  -> 4
      [] type = "IMSG_CFG_RELAY" -> 5
      [] type = "IMSG_CFG_DONE"  -> 6
      [] OTHER -> 0

\* the workers that keep the category what
Keepers(what) == {w \in Workers : what \in ps_what(w[1])}

KeyopResult(req, pkey) ==
    IF req.type = "IMSG_CA_PRIVENC"
    THEN RSA_private_encrypt(req.cko.cko_flen, req.data, pkey,
                             req.cko.cko_padding)
    ELSE RSA_private_decrypt(req.cko.cko_flen, req.data, pkey,
                             req.cko.cko_padding)

\* the CA has handled a request (of a relay that exists, with as many
\* bytes as its header says) and found, or not, the key it names
CaHandled(found) ==
    /\ ca_last.n = 1
    /\ ca_last.req.type \in KeyopCmds
    /\ ca_last.req.cko.cko_proc \in Relays
    /\ Len(ca_last.req.data) = ca_last.req.cko.cko_flen
    /\ ca_last.found = found

\* C6: a well-formed request whose objid is in the pkey table gets exactly
\* one reply, of the type of the request, to the relay the request names,
\* with the bytes the operation yields under the key of that objid.
KeyopAnsweredWithResult ==
    CaHandled(TRUE) =>
        /\ ~ca_last.fatal
        /\ Len(ca_last.out) = 1
        /\ ca_last.out[1].proc = ca_last.req.cko.cko_proc
        /\ ca_last.out[1].msg.type = ca_last.req.type
        /\ ca_last.out[1].msg.data = KeyopResult(ca_last.req, ca_last.pkey).to

\* C7: a request naming an objid that is not in the pkey table gets a
\* zero-length reply and the CA does not die.
UnknownObjidZeroReply ==
    CaHandled(FALSE) =>
        /\ ~ca_last.fatal
        /\ Len(ca_last.out) = 1
        /\ ca_last.out[1].msg.cko.cko_tlen = 0
        /\ ca_last.out[1].msg.data = <<>>

\* C8: when the operation of the CA returns a non-positive value the CA
\* writes a zero-length reply (and survives), so that rsae_send_imsg
\* returns 0.
FailedOpZeroReply ==
    (CaHandled(TRUE) /\ ca_last.res <= 0) =>
        /\ ~ca_last.fatal
        /\ Len(ca_last.out) = 1
        /\ ca_last.out[1].msg.type = ca_last.req.type
        /\ ca_last.out[1].msg.cko.cko_tlen = 0
        /\ ca_last.out[1].msg.data = <<>>
        /\ rsae_reply(ca_last.req.type, ca_last.out[1].msg).ret = 0

\* the requests and replies of relay i that are in flight
Outstanding(i) ==
    LET n1[j \in -1 .. (sc_prefork_relay - 1)] ==
            IF j = -1 THEN 0
            ELSE n1[j - 1] + Len(chan_rc[i][j]) + Len(chan_cr[j][i])
    IN  n1[sc_prefork_relay - 1]

OtherTypes ==
    {"IMSG_CFG_DONE", "IMSG_CTL_START", "IMSG_CTL_RESET", "IMSG_CFG_RELAY"}

\* C9: a relay writes its requests to the CA of its own instance number
\* only and is waiting in rsae_send_imsg while a request or its reply is in
\* flight, so at most one is outstanding; the wait ends with a reply of the
\* type of the request, and a reply of another type, a read error or a
\* closed pipe ends the relay.
KeyopSynchronous ==
    /\ \A i \in Relays :
         /\ \A j \in Relays : j # proc_iev(i) =>
              chan_rc[i][j] = <<>> /\ chan_cr[j][i] = <<>>
         /\ Outstanding(i) <= 1
         /\ Outstanding(i) = 1 => rl_wait[i].waiting
         /\ (rl_last[i].via = "imsg" /\ rl_last[i].how = "return") =>
              rl_last[i].rtype = rl_last[i].cmd
         /\ rl_last[i].how \in {"invalid response", "data size",
                                "imsg_read", "pipe closed"} =>
              ~alive[Relay(i)]
    /\ \A cmd \in KeyopCmds :
       \A t \in (KeyopCmds \cup OtherTypes) \ {cmd} :
         rsae_reply(cmd, [type |-> t, short |-> FALSE,
                          cko |-> [cko_id |-> 1, cko_proc |-> 0,
                                   cko_flen |-> 1, cko_tlen |-> 0,
                                   cko_padding |-> 1],
                          data |-> <<>>]).fatal = "invalid response"

\* a relay that has had one reply is waiting for the reply of its next
\* operation
SecondKeyopWaiting ==
    \E i \in Relays :
        /\ rl_last[i].via = "imsg"
        /\ rl_last[i].how = "return"
        /\ rl_wait[i].waiting
        /\ Outstanding(i) = 1

\* the bytes of the private keys of the configuration files
KeyBytes ==
    UNION { UNION { {f.conf.relays[k].ssl_key[b] :
                        b \in 1 .. Len(f.conf.relays[k].ssl_key)}
                    \cup {f.conf.relays[k].ssl_cakey[b] :
                        b \in 1 .. Len(f.conf.relays[k].ssl_cakey)} :
                    k \in 1 .. Len(f.conf.relays) } : f \in ConfFiles }

\* C10: what the CA writes to a relay is the key-op header and the output
\* of the operation, no byte of a private key is in it nor in the relays a
\* relay process holds, and a relay has used the default private-key method
\* only for a handle without objid.
KeysStayInCa ==
    /\ \A j \in Relays, i \in Relays :
         \A k \in 1 .. Len(chan_cr[j][i]) :
            /\ DOMAIN chan_cr[j][i][k] = {"type", "short", "cko", "data"}
            /\ \A b \in 1 .. Len(chan_cr[j][i][k].data) :
                 chan_cr[j][i][k].data[b] \notin KeyBytes
    /\ (ca_last.n = 1 /\ ca_last.out # <<>>) =>
         LET op == KeyopResult(ca_last.req, ca_last.pkey) IN
         /\ ca_last.out[1].msg.cko =
               [ca_last.req.cko EXCEPT !.cko_tlen = op.ret]
         /\ ca_last.out[1].msg.data = SubSeq(op.to, 1, op.ret)
    /\ \A i \in Relays :
         /\ \A k \in 1 .. Len(rl_env[i].relays) :
              /\ rl_env[i].relays[k].ssl_key = <<>>
              /\ rl_env[i].relays[k].ssl_cakey = <<>>
         /\ rl_last[i].via = "local" => rl_last[i].rsa.ex_data = <<>>
         /\ (rl_last[i].via = "imsg" /\ rl_last[i].how = "return") =>
              \A b \in 1 .. Len(rl_last[i].to) :
                 rl_last[i].to[b] \notin KeyBytes

\* a relay has had the output of a private-key operation from the CA and,
\* for a handle without objid, has used the default method
KeyopOutputReachedRelay ==
    \E i \in Relays :
        /\ rl_last[i].via = "imsg"
        /\ rl_last[i].how = "return"
        /\ rl_last[i].ret > 0
        /\ nops = MaxKeyOps

(***************************************************************************)
(* The parent's copies of the private keys                                 *)
(***************************************************************************)
\* C11: once parent_configure has returned (the parent runs its event
\* loop), the parent holds no relay's private-key bytes: the TLS key and the
\* CA key of every relay it keeps have been purged.
ParentKeysPurgedAfterConfigure ==
    ps_state = "running" =>
        \A i \in 1 .. Len(env.relays) :
            /\ env.relays[i].ssl_key = <<>>
            /\ env.relays[i].ssl_cakey = <<>>

(***************************************************************************)
(* The CA pkey table                                                       *)
(***************************************************************************)
\* CA j handles CTL_START in this step and survives it
LaunchStep(j) ==
    /\ alive[Ca(j)] /\ alive'[Ca(j)]
    /\ chan_pw[Ca(j)] # <<>>
    /\ Head(chan_pw[Ca(j)]).type = "IMSG_CTL_START"
    /\ Len(chan_pw'[Ca(j)]) = Len(chan_pw[Ca(j)]) - 1

\* the keys a relay brings to the CA
KeysOf(rlay) ==
    IF rlay.flags \cap {"F_SSL", "F_SSLCLIENT"} = {} THEN 0
    ELSE (IF rlay.ssl_key_len # 0 THEN 1 ELSE 0)
         + (IF rlay.ssl_cakey_len # 0 THEN 1 ELSE 0)

RECURSIVE KeysOfAll(_, _)
KeysOfAll(relays, i) ==
    IF i > Len(relays) THEN 0 ELSE KeysOf(relays[i]) + KeysOfAll(relays, i + 1)

\* C12: the CA pkey table grows only when the CA handles CTL_START
\* (ca_launch); after that step every relay with the SSL or SSL_CLIENT flag
\* and a key (resp. CA key) has pkey_find(ssl_keyid) (resp. ssl_cakeyid)
\* return a key handle and its PEM key buffer purged, and the table got
\* exactly one entry per such key: relays without the flags add none.
PkeyTableWrittenByLaunch ==
    [][\A j \in Relays :
        /\ ca_env'[j].pkeys # ca_env[j].pkeys =>
              \/ ca_env'[j].pkeys = <<>>
              \/ /\ chan_pw[Ca(j)] # <<>>
                 /\ Head(chan_pw[Ca(j)]).type = "IMSG_CTL_START"
        /\ LaunchStep(j) =>
              LET relays == ca_env'[j].relays
                  pkeys  == ca_env'[j].pkeys
              IN  /\ \A k \in 1 .. Len(relays) :
                        relays[k].flags \cap {"F_SSL", "F_SSLCLIENT"} # {} =>
                          /\ relays[k].ssl_key_len # 0 =>
                                /\ pkey_find(pkeys, relays[k].ssl_keyid)
                                      # NullPkey
                                /\ relays[k].ssl_key = <<>>
                          /\ relays[k].ssl_cakey_len # 0 =>
                                /\ pkey_find(pkeys, relays[k].ssl_cakeyid)
                                      # NullPkey
                                /\ relays[k].ssl_cakey = <<>>
                  /\ Len(pkeys) = Len(ca_env[j].pkeys)
                                    + KeysOfAll(relays, 1)]_vars

\* a CA has launched with a relay that brings a TLS key and a CA key and a
\* relay without the SSL flags
PkeyTableLoaded ==
    \E j \in Relays :
        /\ alive[Ca(j)]
        /\ Len(ca_env[j].relays) = 2
        /\ Len(ca_env[j].pkeys) = 2
        /\ \E k \in 1 .. 2 : ca_env[j].relays[k].flags = {}

(***************************************************************************)
(* Signals and the parent's exit                                           *)
(***************************************************************************)
\* C13: a SIGCHLD on which the parent reaps at least one child shuts the
\* parent down in full (configuration purged, every worker killed, parent
\* exited through parent_shutdown); a SIGCHLD on which no child is reaped
\* does not shut the parent down.
ChildDeathShutsDown ==
    /\ last_chld # {} =>
          /\ ps_state = "exited"
          /\ exit_by = [how |-> "parent_shutdown", on |-> "SIGCHLD"]
          /\ env.tables = <<>> /\ env.rdrs = <<>>
          /\ env.protos = <<>> /\ env.relays = <<>>
          /\ \A w \in Workers : ~alive[w]
    /\ exit_by.on = "SIGCHLD" => last_chld # {}

\* the parent has reaped a child and is gone
ChildReapedShutdown ==
    /\ last_chld # {}
    /\ ps_state = "exited"

\* C14: when the CA dies while a relay waits for the reply of a key
\* operation, the relay stays up (only the handshake fails), and the parent,
\* having reaped the dead CA, keeps running with the CA respawned.
CaLossKeepsDaemonUp ==
    /\ \A i \in Relays :
          (ps_state = "running" /\ rl_last[i].how = "pipe closed") =>
              alive[Relay(i)]
    /\ \A j \in Relays :
          last_chld = {Ca(j)} => ps_state = "running" /\ alive[Ca(j)]

\* the clean stops: SIGINT, SIGTERM and the control request CTL_SHUTDOWN
CleanStops == {"SIGINT", "SIGTERM", "IMSG_CTL_SHUTDOWN"}

\* C15: the parent exits with status 0 only on a clean stop (SIGINT, SIGTERM
\* or CTL_SHUTDOWN) and with status 1 on a configuration error or a fatal
\* condition, the loss of a child that exited abnormally included.
ExitStatusTellsCause ==
    ps_state = "exited" =>
        /\ exit_status \in {0, 1}
        /\ exit_status = 0 => exit_by.on \in CleanStops
        /\ exit_by.on \notin CleanStops => exit_status = 1

(***************************************************************************)
(* The rules of a protocol on their own: the parser allocates rules and    *)
(* hands them to rule_add, sessions inherit and free them, a purge deletes *)
(* them.                                                                   *)
(***************************************************************************)
Kv(type, option, key, value) ==
    [kv_type |-> type, kv_option |-> option, kv_key |-> key,
     kv_value |-> value, kv_flags |-> {}]

\* the rules the parser builds
RuleInputs ==
    {[rule_dir |-> "RELAY_DIR_REQUEST", rule_label |-> 1, rule_tag |-> 0,
      rule_tagged |-> 0,
      rule_kv |-> [t \in KeyTypes |->
                     IF t = "KEY_TYPE_HEADER"
                     THEN Kv(t, "KEY_OPTION_NONE", <<97>>, <<36>>)
                     ELSE NoKv]],
     [rule_dir |-> "RELAY_DIR_REQUEST", rule_label |-> 1, rule_tag |-> 1,
      rule_tagged |-> 1,
      rule_kv |-> [t \in KeyTypes |->
                     IF t = "KEY_TYPE_URL"
                     THEN Kv(t, "KEY_OPTION_LOG", KvNull, KvNull)
                     ELSE NoKv]],
     [rule_dir |-> "RELAY_DIR_RESPONSE", rule_label |-> 2, rule_tag |-> 2,
      rule_tagged |-> 1,
      rule_kv |-> [t \in KeyTypes |->
                     IF t = "KEY_TYPE_URL"
                     THEN Kv(t, "KEY_OPTION_NONE", <<97, 42>>, KvNull)
                     ELSE NoKv]]}

\* the rule files: none, one that cannot be opened, and files of lines
RuleFiles ==
    {[given |-> FALSE, opens |-> FALSE, lines |-> <<>>],
     [given |-> TRUE, opens |-> FALSE, lines |-> <<>>],
     [given |-> TRUE, opens |-> TRUE, lines |-> << <<35>> >>],
     [given |-> TRUE, opens |-> TRUE,
      lines |-> << <<97, 42>>, <<>>, <<65>> >>]}

KeyLines(file) ==
    Cardinality({i \in 1 .. Len(file.lines) :
                    file.lines[i] # <<>> /\ file.lines[i][1] # 35})

\* label_name2id() / tag_name2id(): intern the name and take a reference
label_name2id(refs, id) == IF id > 0 THEN [refs EXCEPT ![id] = @ + 1] ELSE refs

RuleParse ==
    /\ Len(rule_list) + Len(rule_held) < MaxRules
    /\ \E rule \in RuleInputs :
         /\ rule_held' = Append(rule_held, rule)
         /\ rule_refs' =
              [labels |-> label_name2id(rule_refs.labels, rule.rule_label),
               tags |-> label_name2id(
                           label_name2id(rule_refs.tags, rule.rule_tag),
                           rule.rule_tagged)]
    /\ UNCHANGED <<rule_list, procvars, msgvars, kvvars, tablevars, rlimvars,
                   acceptvars>>

RuleAdd ==
    \E i \in 1 .. Len(rule_held), file \in RuleFiles :
      \E failat \in 0 .. Len(file.lines), how \in {"calloc", "strdup"} :
        /\ Len(rule_list) + Len(rule_held) - 1 + KeyLines(file) <= MaxRules
        /\ LET a == rule_add(rule_refs, rule_list, rule_held[i], file,
                             failat, how)
           IN  /\ rule_list' = a.rules
               /\ rule_refs' = a.reg
               /\ rule_held' = IF a.freed \/ a.listed
                               THEN Without(rule_held, i)
                               ELSE [rule_held EXCEPT ![i] = a.rule]
        /\ UNCHANGED <<procvars, msgvars, kvvars, tablevars, rlimvars, acceptvars>>

RuleInherit ==
    /\ Len(rule_list) + Len(rule_held) < MaxRules
    /\ \E i \in 1 .. Len(rule_list), ok \in BOOLEAN :
         LET inh == rule_inherit(rule_refs, rule_list[i], ok) IN
         /\ rule_refs' = inh.reg
         /\ rule_held' = IF inh.ok THEN Append(rule_held, inh.r)
                         ELSE rule_held
    /\ UNCHANGED <<rule_list, procvars, msgvars, kvvars, tablevars, rlimvars,
                   acceptvars>>

\* rule_free(rule); free(rule) of a rule outside the list
RuleFree ==
    /\ \E i \in 1 .. Len(rule_held) :
         /\ rule_refs' = rule_free(rule_refs, rule_held[i])
         /\ rule_held' = Without(rule_held, i)
    /\ UNCHANGED <<rule_list, procvars, msgvars, kvvars, tablevars, rlimvars,
                   acceptvars>>

RuleDelete ==
    /\ \E i \in 1 .. Len(rule_list) :
         LET d == rule_delete(rule_refs, rule_list, i) IN
         /\ rule_list' = d.rules
         /\ rule_refs' = d.reg
    /\ UNCHANGED <<rule_held, procvars, msgvars, kvvars, tablevars, rlimvars,
                   acceptvars>>

RuleNext ==
    \/ RuleParse
    \/ RuleAdd
    \/ RuleInherit
    \/ RuleFree
    \/ RuleDelete

RuleSpec == Init /\ [][RuleNext]_vars

(***************************************************************************)
(* rule_add on its own: the parser builds a rule and hands it to rule_add  *)
(* with or without a rule file; the call, the list before it and what it   *)
(* returned are kept in msg_last.                                          *)
(***************************************************************************)
\* a rule with one key of the given type and no label or tag
KeyRule(dir, type, key) ==
    [rule_dir |-> dir, rule_label |-> 0, rule_tag |-> 0, rule_tagged |-> 0,
     rule_kv |-> [t \in KeyTypes |->
                    IF t = type THEN Kv(t, "KEY_OPTION_NONE", key, KvNull)
                    ELSE NoKv]]

\* the rules handed to rule_add: those of RuleInputs, and rules with a
\* query, path or url key in either direction
RuleAddInputs ==
    RuleInputs
    \cup { KeyRule(dir, type, <<97>>) :
              dir \in {"RELAY_DIR_REQUEST", "RELAY_DIR_RESPONSE"},
              type \in {"KEY_TYPE_QUERY", "KEY_TYPE_PATH", "KEY_TYPE_URL"} }

\* the lines of a rule file that are neither empty nor a comment, in order
KeyLineSeq(file) ==
    SelectSeq(file.lines, LAMBDA l : l # <<>> /\ l[1] # 35)

\* the parser builds the rule and calls rule_add(proto, rule, rulefile); a
\* rule that was refused is disposed of before the next one is built
RuleAddCall ==
    \E rule \in RuleAddInputs, file \in RuleFiles :
      \E failat \in 0 .. Len(file.lines), how \in {"calloc", "strdup"} :
        /\ rule_held = <<>>
        /\ Len(rule_list) + KeyLines(file) <= MaxRules
        /\ Len(rule_list) < MaxRules
        /\ LET reg == [labels |-> label_name2id(rule_refs.labels,
                                                rule.rule_label),
                       tags |-> label_name2id(
                                   label_name2id(rule_refs.tags,
                                                 rule.rule_tag),
                                   rule.rule_tagged)]
               a   == rule_add(reg, rule_list, rule, file, failat, how)
           IN  /\ rule_list' = a.rules
               /\ rule_refs' = a.reg
               /\ rule_held' = IF a.freed \/ a.listed THEN rule_held
                               ELSE Append(rule_held, a.rule)
               /\ msg_last' = [n |-> 1, who |-> "rule_add", at |-> 0,
                               from |-> 0, with |-> "", imsg |-> NoKeyop.req,
                               r |-> [ret |-> a.ret, before |-> rule_list,
                                      rule |-> rule, file |-> file,
                                      freed |-> a.freed]]
        /\ UNCHANGED <<procvars, kvvars, tablevars, rlimvars, acceptvars>>

\* the protocol is purged: rule_delete of a rule of the list
RuleAddPurge ==
    /\ \E i \in 1 .. Len(rule_list) :
         LET d == rule_delete(rule_refs, rule_list, i) IN
         /\ rule_list' = d.rules
         /\ rule_refs' = d.reg
    /\ msg_last' = [n |-> 1, who |-> "rule_delete", at |-> 0, from |-> 0,
                    with |-> "", imsg |-> NoKeyop.req, r |-> [ret |-> 0]]
    /\ UNCHANGED <<rule_held, procvars, kvvars, tablevars, rlimvars,
                   acceptvars>>

RuleAddNext ==
    \/ RuleAddCall
    \/ RuleFree
    \/ RuleAddPurge

RuleAddSpec == Init /\ [][RuleAddNext]_vars

(***************************************************************************)
(* The rules of a protocol and the tables of a relay: the parser lists the *)
(* rules, then rule_settable is called once for each relay table.          *)
(***************************************************************************)
MaxTableRules == 2

\* the table names a rule may carry: none, "a", "b" and "c"
RuleTableNames == { <<>>, <<97>>, <<98>>, <<99>> }

\* the tables of the relay: "a:8", "b", and one whose table is missing
RelayTables ==
    { [rlt_id |-> 1, rlt_table |-> [conf |-> [name |-> <<97, 58, 56>>]]],
      [rlt_id |-> 2, rlt_table |-> [conf |-> [name |-> <<98>>]]],
      [rlt_id |-> 3, rlt_table |-> NullTable] }

\* the relay tables rule_settable was called for so far
SettableDone == IF msg_last.who = "settable" THEN msg_last.r.done ELSE {}

\* the parser lists a rule that names a table
SettableRule ==
    /\ msg_last.who = ""
    /\ rule_held = <<>>
    /\ Len(rule_list) < MaxTableRules
    /\ \E name \in RuleTableNames :
         rule_list' = Append(rule_list, [rule_tablename |-> name,
                                         rule_table |-> 0])
    /\ UNCHANGED <<rule_held, rule_refs, procvars, msgvars, kvvars,
                   tablevars, rlimvars, acceptvars>>

\* rule_settable(&proto->rules, rlt) for the next relay table
RuleSettable ==
    /\ msg_last.who \in {"", "settable"}
    /\ \E rlt \in RelayTables :
         /\ rlt.rlt_id \notin SettableDone
         /\ rule_list' = rule_settable(rule_list, rlt)
         /\ msg_last' = [n |-> 1, who |-> "settable", at |-> rlt.rlt_id,
                         from |-> 0, with |-> "", imsg |-> NoKeyop.req,
                         r |-> [done |-> SettableDone \cup {rlt.rlt_id}]]
    /\ UNCHANGED <<rule_held, rule_refs, procvars, kvvars, tablevars,
                   rlimvars, acceptvars>>

SettableNext ==
    \/ SettableRule
    \/ RuleSettable

SettableSpec == Init /\ [][SettableNext]_vars

(***************************************************************************)
(* The table list on its own: the parser appends tables, giving each the   *)
(* next id, and looks a new table up by its configuration.                 *)
(***************************************************************************)
\* the tables the parser builds, before an id is given; a table that a
\* redirection uses carries F_USED and the redirection's id
TableInputs ==
    { [conf |-> [id |-> 0, rdrid |-> IF "F_USED" \in f THEN 1 ELSE 0,
                 flags |-> f, check |-> c, name |-> "t"],
       sendbuf |-> b] :
      f \in {{}, {"F_USED"}, {"F_BACKUP", "F_DISABLE"}},
      c \in {"CHECK_TCP", "CHECK_SEND_EXPECT"},
      b \in {KvNull, <<>>, <<97>>} }

TableAdd ==
    /\ Len(sc_tables) < MaxTables
    /\ \E tb \in TableInputs :
         sc_tables' = Append(sc_tables,
                             [tb EXCEPT !.conf.id = Len(sc_tables) + 1])
    /\ tb_found' = NoFound
    /\ UNCHANGED <<procvars, msgvars, kvvars, rulevars, rlimvars, acceptvars>>

TableFindByConf ==
    /\ \E tb \in TableInputs :
         tb_found' = [n |-> 1, tb |-> tb,
                      ret |-> table_findbyconf(sc_tables, tb, 1)]
    /\ UNCHANGED <<sc_tables, procvars, msgvars, kvvars, rulevars, rlimvars,
                   acceptvars>>

TableNext ==
    \/ TableAdd
    \/ TableFindByConf

TableSpec == Init /\ [][TableNext]_vars

(***************************************************************************)
(* A process that calls socket_rlimit once after it was started with some  *)
(* limit on its open files.                                                *)
(***************************************************************************)
\* the values of maxfd: -1, another negative int, and descriptors below,
\* at and above the hard limits
MaxFds == {-2, -1} \cup (0 .. MaxNofile + 1)

\* the process is started under the limits of its login class
RlimitStart ==
    /\ \E rl \in Limits : nofile' = rl
    /\ nofile_req' = NoRlimit
    /\ UNCHANGED <<procvars, msgvars, kvvars, rulevars, tablevars, acceptvars>>

SocketRlimit ==
    /\ nofile_req.n = 0
    /\ \E maxfd \in MaxFds :
        LET r == socket_rlimit(maxfd, nofile)
        IN  /\ nofile' = r.rl
            /\ nofile_req' = [n |-> 1, maxfd |-> maxfd, fatal |-> r.fatal,
                              before |-> nofile, asked |-> r.asked]
    /\ UNCHANGED <<procvars, msgvars, kvvars, rulevars, tablevars, acceptvars>>

RlimitNext ==
    \/ RlimitStart
    \/ SocketRlimit

RlimitSpec == Init /\ [][RlimitNext]_vars

(***************************************************************************)
(* A worker that accepts connections with accept_reserve, turns them into  *)
(* sessions and closes them.                                               *)
(***************************************************************************)
\* the largest reserve asked for
MaxReserve == 2

\* getdtablecount()
getdtablecount == Cardinality({ fd \in DOMAIN fds : fds[fd] # "free" })

FreeFds == { fd \in DOMAIN fds : fds[fd] = "free" }

\* accept(): the lowest free descriptor, or -1 when the connection is gone
\* or no descriptor is free
accept(ok) ==
    IF ok /\ FreeFds # {}
    THEN CHOOSE fd \in FreeFds : \A g \in FreeFds : fd <= g
    ELSE -1

AcceptReserve ==
    /\ \E reserve \in 0 .. MaxReserve, ok \in BOOLEAN :
        LET r == accept_reserve(reserve, inflight, getdtablecount, accept(ok))
        IN  /\ inflight' = r.counter
            /\ fds' = IF r.ret > -1
                       THEN [fds EXCEPT ![r.ret] = "inflight"]
                       ELSE fds
            /\ acc_last' = [n |-> 1, reserve |-> reserve,
                            dtablecount |-> getdtablecount,
                            before |-> inflight, ret |-> r.ret,
                            errno |-> r.errno, called |-> r.called,
                            after |-> r.counter]
    /\ UNCHANGED <<procvars, msgvars, kvvars, rulevars, tablevars, rlimvars>>

\* the accepted connection became a session; it is no longer in flight
SessionStart ==
    /\ \E fd \in DOMAIN fds :
        /\ fds[fd] = "inflight"
        /\ fds' = [fds EXCEPT ![fd] = "session"]
    /\ inflight' = inflight - 1
    /\ UNCHANGED <<acc_last, procvars, msgvars, kvvars, rulevars, tablevars,
                   rlimvars>>

\* a session ends and its descriptor is closed
SessionClose ==
    /\ \E fd \in DOMAIN fds :
        /\ fds[fd] = "session"
        /\ fds' = [fds EXCEPT ![fd] = "free"]
    /\ UNCHANGED <<inflight, acc_last, procvars, msgvars, kvvars, rulevars,
                   tablevars, rlimvars>>

AcceptNext ==
    \/ AcceptReserve
    \/ SessionStart
    \/ SessionClose

AcceptSpec == Init /\ [][AcceptNext]_vars

(***************************************************************************)
(* The handlers on their own: each is given the next message of a channel, *)
(* well-formed or not, and what it does with it is recorded.               *)
(***************************************************************************)
\* the values of bnd_proto: TCP, UDP and another protocol
Protos == {"IPPROTO_TCP", "IPPROTO_UDP", "IPPROTO_ICMP"}

\* the calls of bindany() that may fail, "" when none does
BindOutcomes == {"", "relay_socket_af", "socket", "setsockopt", "bind"}

\* the instance indexes a message may name: the instances, and the two
\* values above them
ProcIndexes == 0 .. (sc_prefork_relay + 1)

\* the parent takes a BINDANY request from the channel of relay i
ParentBindany(i) ==
    /\ \E proc \in ProcIndexes, proto \in Protos, id \in 1 .. 2,
          short \in BOOLEAN, sys \in BindOutcomes :
        LET imsg == [type |-> "IMSG_BINDANY", short |-> short,
                     bnd |-> [bnd_id |-> id, bnd_proc |-> proc,
                              bnd_proto |-> proto]]
            r    == parent_dispatch_relay(imsg, EmptyConf, 0, sys)
        IN  msg_last' = [n |-> 1, who |-> "parent", at |-> 0, from |-> i,
                         with |-> sys, imsg |-> imsg, r |-> r]
    /\ UNCHANGED <<procvars, kvvars, rulevars, tablevars,
                   rlimvars, acceptvars>>

\* a CA that has launched the relays of FileB
LaunchedCa ==
    LET l == ca_launch([relays |-> FileB.relays, pkeys |-> <<>>])
    IN  [relays |-> l.relays, pkeys |-> l.pkeys]

\* the payloads after the header: none, one or two bytes
Payloads == { <<>>, <<1>>, <<1, 2>> }

\* CA j takes a key-op request from the channel of relay i
CaKeyop(j, i) ==
    /\ \E type \in KeyopCmds, id \in 1 .. 2, proc \in ProcIndexes,
          flen \in 0 .. 2, data \in Payloads, short \in BOOLEAN,
          ub \in UbOutcomes :
        LET imsg == [type |-> type, short |-> short,
                     cko |-> [cko_id |-> id, cko_proc |-> proc,
                              cko_flen |-> flen, cko_tlen |-> 2,
                              cko_padding |-> 1],
                     data |-> IF short THEN <<>> ELSE data]
            r    == ca_dispatch_relay(LaunchedCa, imsg, ub)
        IN  msg_last' = [n |-> 1, who |-> "ca", at |-> j, from |-> i,
                         with |-> ub, imsg |-> imsg, r |-> r]
    /\ UNCHANGED <<procvars, kvvars, rulevars, tablevars,
                   rlimvars, acceptvars>>

\* relay i, waiting in rsae_send_imsg for the reply to cmd, takes a
\* message from its CA
RelayReply(i) ==
    /\ \E cmd \in KeyopCmds, type \in KeyopCmds, tlen \in -1 .. 2,
          data \in Payloads, short \in BOOLEAN :
        LET imsg == [type |-> type, short |-> short,
                     cko |-> [cko_id |-> 2, cko_proc |-> i,
                              cko_flen |-> 1, cko_tlen |-> tlen,
                              cko_padding |-> 1],
                     data |-> IF short THEN <<>> ELSE data]
            r    == rsae_reply(cmd, imsg)
        IN  msg_last' = [n |-> 1, who |-> "relay", at |-> i,
                         from |-> proc_iev(i), with |-> cmd, imsg |-> imsg,
                         r |-> r]
    /\ UNCHANGED <<procvars, kvvars, rulevars, tablevars,
                   rlimvars, acceptvars>>

\* what the parent's steps below leave alone
ParentRest == <<ps_state, exit_status, chan_pw, chan_wp, alive, ca_env,
                rl_env, rl_wait, chan_rc, chan_cr, sent, round, n_reload,
                nreq, nops, ca_last, rl_last, last_chld, exit_by>>

\* the parent is asked to reload, or to reset a scope: parent_reload()
\* starts a round unless one is pending
ParentReload ==
    /\ \E reset \in {CONFIG_RELOAD, CONFIG_ALL, {"TABLES"}},
          file \in ConfFiles, pf_ok \in BOOLEAN :
        LET r == parent_reload(env, sc_reload, reset, file, pf_ok)
        IN  /\ env' = r.env
            /\ sc_reload' = r.sc_reload
            /\ msg_last' = [n |-> 1, who |-> "reload", at |-> sc_reload,
                            from |-> 0, with |-> reset,
                            imsg |-> NoKeyop.req,
                            r |-> [ret |-> 0, sc_reload |-> r.sc_reload,
                                   log |-> r.log]]
    /\ UNCHANGED <<ParentRest, kvvars, rulevars, tablevars, rlimvars,
                   acceptvars>>

\* the parent takes IMSG_CFG_DONE from the channel of worker w, whatever
\* the number of acknowledgements it still waits for
ParentCfgDone(w) ==
    /\ LET r == CASE w[1] = "PROC_HCE" ->
                        parent_dispatch_hce(CfgDoneAck, env, sc_reload)
                   [] w[1] = "PROC_RELAY" ->
                        parent_dispatch_relay(CfgDoneAck, env, sc_reload, "")
                   [] w[1] = "PROC_CA" ->
                        parent_dispatch_ca(CfgDoneAck, env, sc_reload)
                   [] OTHER ->
                        parent_dispatch_pfe(CfgDoneAck, env, sc_reload,
                                            [ok |-> TRUE, conf |-> FileA],
                                            TRUE)
       IN  /\ env' = r.env
           /\ sc_reload' = r.sc_reload
           /\ msg_last' = [n |-> 1, who |-> "done", at |-> sc_reload,
                           from |-> w[2], with |-> w[1],
                           imsg |-> CfgDoneAck,
                           r |-> [ret |-> r.ret, sc_reload |-> r.sc_reload,
                                  log |-> r.log]]
    /\ UNCHANGED <<ParentRest, kvvars, rulevars, tablevars, rlimvars,
                   acceptvars>>

MsgNext ==
    \/ \E i \in Relays : ParentBindany(i)
    \/ \E j \in Relays, i \in Relays : CaKeyop(j, i)
    \/ \E i \in Relays : RelayReply(i)

MsgSpec == Init /\ [][MsgNext]_vars

\* the parent's counter under reloads and acknowledgements in any number
ReloadCountNext ==
    \/ ParentReload
    \/ \E w \in Workers : ParentCfgDone(w)

ReloadCountSpec == Init /\ [][ReloadCountNext]_vars

(***************************************************************************)
(* The CA under the parent's messages of successive rounds: the relays of  *)
(* the configuration, CFG_DONE and CTL_START at startup; CTL_RESET, the    *)
(* relays, CFG_DONE and CTL_START at each reload.  Every CA instance runs  *)
(* the same code on its own copy; instance 0 is followed.                  *)
(***************************************************************************)
MaxLaunches == 3

MaxLaunchRelays == 2

\* RelaySsl after its key file was replaced
RelayRekeyed == [RelaySsl EXCEPT !.ssl_key = <<9, 7>>]

LaunchRelays == {RelaySsl, RelayRekeyed, RelayInspect, RelayPlain}

\* the CA takes msg from the parent; old is the pkey table as it was when
\* the round began
CaTakes(who, msg, n, old) ==
    LET r == ca_dispatch_parent(ca_env[0], msg) IN
    /\ ca_env' = [ca_env EXCEPT ![0] = r.cenv]
    /\ msg_last' = [n |-> n, who |-> who, at |-> 0, from |-> 0, with |-> "",
                    imsg |-> msg,
                    r |-> [fatal |-> r.fatal, before |-> ca_env[0],
                           old |-> old]]
    /\ UNCHANGED <<ps_state, exit_status, env, sc_reload, chan_pw, chan_wp,
                   alive, rl_env, rl_wait, chan_rc, chan_cr, sent, round,
                   n_reload, nreq, nops, ca_last, rl_last, last_chld,
                   exit_by>>
    /\ UNCHANGED <<kvvars, rulevars, tablevars, rlimvars, acceptvars>>

\* a reload begins once the CA has launched: config_setreset(CONFIG_ALL)
CaReset ==
    /\ msg_last.who = "ca_start"
    /\ ~msg_last.r.fatal
    /\ msg_last.n < MaxLaunches
    /\ CaTakes("ca_reset", [type |-> "IMSG_CTL_RESET", data |-> CONFIG_ALL],
               msg_last.n, ca_env[0].pkeys)

\* config_setrelay: the next relay of the configuration
CaRelay ==
    /\ msg_last.who \in {"", "ca_reset", "ca_relay"}
    /\ Len(ca_env[0].relays) < MaxLaunchRelays
    /\ \E rlay \in LaunchRelays :
        /\ \A k \in 1 .. Len(ca_env[0].relays) :
              ca_env[0].relays[k].id # rlay.id
        /\ CaTakes("ca_relay", [type |-> "IMSG_CFG_RELAY", data |-> rlay],
                   msg_last.n,
                   IF msg_last.who = "" THEN <<>> ELSE msg_last.r.old)

\* CFG_DONE, acknowledged, and the CTL_START that follows the last
\* acknowledgement
CaStart ==
    /\ msg_last.who \in {"", "ca_reset", "ca_relay"}
    /\ CaTakes("ca_start", [type |-> "IMSG_CTL_START", data |-> -1],
               msg_last.n + 1,
               IF msg_last.who = "" THEN <<>> ELSE msg_last.r.old)

CaLaunchNext ==
    \/ CaReset
    \/ CaRelay
    \/ CaStart

CaLaunchSpec == Init /\ [][CaLaunchNext]_vars

(***************************************************************************)
(* The dispatchers given a message of any type on any channel.             *)
(***************************************************************************)
ImsgTypes ==
    {"IMSG_CTL_RESET", "IMSG_CTL_RELOAD", "IMSG_CTL_SHUTDOWN",
     "IMSG_CTL_START", "IMSG_CFG_DONE", "IMSG_CFG_RELAY", "IMSG_BINDANY",
     "IMSG_SCRIPT", "IMSG_CA_PRIVENC", "IMSG_CA_PRIVDEC",
     "IMSG_HOST_STATUS"}

\* a complete message of type t; scope is the payload of a CTL_RESET
AnyImsg(t, scope) ==
    [type  |-> t,
     short |-> FALSE,
     data  |-> CASE t = "IMSG_CTL_RESET" -> scope
                 [] t = "IMSG_CFG_RELAY" -> RelaySsl
                 [] t \in KeyopCmds -> <<1>>
                 [] OTHER -> {},
     cko   |-> [cko_id |-> 2, cko_proc |-> 0, cko_flen |-> 1, cko_tlen |-> 2,
                cko_padding |-> 1],
     bnd   |-> [bnd_id |-> 1, bnd_proc |-> 0, bnd_proto |-> "IPPROTO_TCP"],
     scr   |-> [host |-> 1, exec |-> 0]]

\* the configurations a running parent holds: what parent_configure left
RunningEnvs == { parent_configure(f, TRUE).env : f \in {FileA, FileB} }

\* the parent takes a message from the channel of worker w
ParentTakes(w) ==
    /\ \E t \in ImsgTypes, scope \in {CONFIG_ALL, {"TABLES"}},
          e \in RunningEnvs, reload \in {0, 2}, file \in ConfFiles,
          pf_ok \in BOOLEAN :
        LET m == AnyImsg(t, scope)
            r == CASE w[1] = "PROC_HCE" -> parent_dispatch_hce(m, e, reload)
                   [] w[1] = "PROC_RELAY" ->
                        parent_dispatch_relay(m, e, reload, "")
                   [] w[1] = "PROC_CA" -> parent_dispatch_ca(m, e, reload)
                   [] OTHER -> parent_dispatch_pfe(m, e, reload, file, pf_ok)
        IN  msg_last' = [n |-> 1, who |-> "parent_any", at |-> reload,
                         from |-> w[2], with |-> w[1], imsg |-> m,
                         r |-> [ret |-> r.ret, env |-> r.env,
                                sc_reload |-> r.sc_reload, log |-> r.log,
                                shutdown |-> r.shutdown,
                                called |-> r.rl.called, before |-> e]]
    /\ UNCHANGED <<procvars, kvvars, rulevars, tablevars,
                   rlimvars, acceptvars>>

\* a CA takes a message from the parent's channel
CaTakesParent ==
    /\ \E t \in ImsgTypes, scope \in {CONFIG_ALL, {"TABLES"}} :
        LET m == AnyImsg(t, scope)
            r == ca_dispatch_parent(LaunchedCa, m)
        IN  msg_last' = [n |-> 1, who |-> "ca_parent", at |-> 0, from |-> 0,
                         with |-> "PROC_PARENT", imsg |-> m,
                         r |-> [ret |-> r.ret, fatal |-> r.fatal,
                                cenv |-> r.cenv, before |-> LaunchedCa]]
    /\ UNCHANGED <<procvars, kvvars, rulevars, tablevars,
                   rlimvars, acceptvars>>

\* a CA takes a message from the channel of a relay
CaTakesRelay ==
    /\ \E t \in ImsgTypes, ub \in UbOutcomes :
        LET m == AnyImsg(t, CONFIG_ALL)
            r == ca_dispatch_relay(LaunchedCa, m, ub)
        IN  msg_last' = [n |-> 1, who |-> "ca_relay", at |-> 0, from |-> 0,
                         with |-> "PROC_RELAY", imsg |-> m,
                         r |-> [ret |-> r.ret, fatal |-> r.fatal,
                                out |-> r.out]]
    /\ UNCHANGED <<procvars, kvvars, rulevars, tablevars,
                   rlimvars, acceptvars>>

DispatchNext ==
    \/ \E w \in Workers : ParentTakes(w)
    \/ CaTakesParent
    \/ CaTakesRelay

DispatchSpec == Init /\ [][DispatchNext]_vars

(***************************************************************************)
(* kv_find                                                                 *)
(***************************************************************************)
\* the glob metacharacters "*", "?", "["
GlobMeta == {42, 63, 91}

HasByte(key, bytes) == \E i \in 1 .. Len(key) : key[i] \in bytes

\* C16, as stated: for a lookup key without "*", "?" and "[", kv_find with
\* KV_FLAG_GLOBBING and kv_find without it return the same node (or both
\* none).
GlobFindsAsExact ==
    (kv_look.n > 0 /\ ~HasByte(kv_look.key, GlobMeta)) =>
        kv_look.glob = kv_look.exact

\* C16, amended: the same for a lookup key that holds neither "*", "?",
\* "[" nor the quoting byte "\".
GlobFindsAsExactUnquoted ==
    (kv_look.n > 0 /\ ~HasByte(kv_look.key, GlobMeta \cup {92})) =>
        kv_look.glob = kv_look.exact

\* a key was found both ways, under another spelling, in a tree of two
GlobFoundFolded ==
    /\ kv_look.n > 0
    /\ ~HasByte(kv_look.key, GlobMeta \cup {92})
    /\ Len(kv_tree) = 2
    /\ kv_look.exact = 2
    /\ kv_look.glob = 2
    /\ kv_tree[2].kv_key # kv_look.key

(***************************************************************************)
(* Label and tag references                                                *)
(***************************************************************************)
\* the rules that are allocated: those of the protocol and those held
LiveRules == rule_list \o rule_held

\* how many elements of list satisfy Test
Count(list, Test(_)) == Cardinality({i \in 1 .. Len(list) : Test(list[i])})

\* C17, as stated: the references outstanding on each label and on each
\* tag are as many as the live rules that reference it.
RefsEqualReferencingRules ==
    \A id \in RuleIds :
        /\ rule_refs.labels[id] =
              Count(LiveRules, LAMBDA r : r.rule_label = id)
        /\ rule_refs.tags[id] =
              Count(LiveRules,
                    LAMBDA r : r.rule_tag = id \/ r.rule_tagged = id)

\* C17, amended: the references on a label are as many as the live rules
\* whose label it is; the references on a tag are as many as the tag and
\* tagged fields of live rules that name it (a rule naming it in both
\* holds two).
RefsEqualReferences ==
    \A id \in RuleIds :
        /\ rule_refs.labels[id] =
              Count(LiveRules, LAMBDA r : r.rule_label = id)
        /\ rule_refs.tags[id] =
              Count(LiveRules, LAMBDA r : r.rule_tag = id)
              + Count(LiveRules, LAMBDA r : r.rule_tagged = id)

\* rules were added from a rule file, the parser's rule was freed, and
\* one of the new rules has since been deleted
RulesFromFileLive ==
    /\ Len(rule_list) = 1
    /\ rule_held = <<>>
    /\ rule_list[1].rule_tag = 1 /\ rule_list[1].rule_tagged = 1
    /\ rule_list[1].rule_kv["KEY_TYPE_URL"].kv_key = <<65>>
    /\ rule_refs.tags[1] = 2

(***************************************************************************)
(* table_findbyconf                                                        *)
(***************************************************************************)
\* table t is configured as tb is: every field of the configuration but
\* id, rdrid and the flags F_USED and F_BACKUP is equal, and the send
\* buffers are both absent or both present with the same content
ConfiguredAs(t, tb) ==
    /\ t.conf.name = tb.conf.name
    /\ t.conf.check = tb.conf.check
    /\ \A f \in (t.conf.flags \cup tb.conf.flags) \ {"F_USED", "F_BACKUP"} :
          f \in t.conf.flags /\ f \in tb.conf.flags
    /\ (t.sendbuf = KvNull) = (tb.sendbuf = KvNull)
    /\ t.sendbuf = tb.sendbuf

\* C18: table_findbyconf(tb) returns the first table in list order that is
\* configured as tb is, and NULL when there is none; the table found keeps
\* the id it has in the list.
FindByConfFirstEqual ==
    tb_found.n > 0 =>
        LET ret    == tb_found.ret
            tables == sc_tables
        IN  /\ ret \in 0 .. Len(tables)
            /\ ret # 0 =>
                  /\ ConfiguredAs(tables[ret], tb_found.tb)
                  /\ \A i \in 1 .. ret - 1 :
                        ~ConfiguredAs(tables[i], tb_found.tb)
                  /\ tables[ret].conf.id = ret
            /\ ret = 0 =>
                  \A i \in 1 .. Len(tables) :
                      ~ConfiguredAs(tables[i], tb_found.tb)

\* the second of two tables was found: it differs from the table looked
\* up in id, rdrid and F_USED only, the first differs in its send buffer
FoundSecondTable ==
    /\ tb_found.n > 0
    /\ tb_found.ret = 2
    /\ "F_USED" \in sc_tables[2].conf.flags
    /\ "F_USED" \notin tb_found.tb.conf.flags
    /\ sc_tables[1].conf.check = tb_found.tb.conf.check
    /\ sc_tables[1].conf.flags = tb_found.tb.conf.flags

(***************************************************************************)
(* socket_rlimit                                                           *)
(***************************************************************************)
\* C19: for every maxfd, socket_rlimit raises the soft limit on open files
\* to the hard limit and never asks for a soft limit above the hard limit
SoftRaisedToHard ==
    nofile_req.n > 0 =>
        /\ nofile_req.asked.rlim_cur <= nofile_req.asked.rlim_max
        /\ nofile.rlim_cur = nofile.rlim_max

(***************************************************************************)
(* accept_reserve                                                          *)
(***************************************************************************)
\* C20: accept_reserve refuses with -1 and EMFILE, without calling accept
\* and without touching the counter, whenever open descriptors + reserve +
\* counter reach the descriptor limit; otherwise the counter grows by
\* exactly one when accept succeeds and stays when accept fails
AcceptReserveAccounts ==
    acc_last.n > 0 =>
        IF acc_last.dtablecount + acc_last.reserve + acc_last.before
               >= DtableSize
        THEN /\ acc_last.ret = -1
             /\ acc_last.errno = "EMFILE"
             /\ ~acc_last.called
             /\ acc_last.after = acc_last.before
        ELSE /\ acc_last.called
             /\ acc_last.ret > -1 => acc_last.after = acc_last.before + 1
             /\ acc_last.ret = -1 => acc_last.after = acc_last.before

\* a call was refused exactly at the limit while a connection was in
\* flight, and the counter kept its value
RefusedAtLimit ==
    /\ acc_last.n > 0
    /\ acc_last.before > 0
    /\ acc_last.dtablecount + acc_last.reserve + acc_last.before
           = DtableSize
    /\ acc_last.ret = -1
    /\ acc_last.errno = "EMFILE"
    /\ inflight = acc_last.before

(***************************************************************************)
(* BINDANY                                                                 *)
(***************************************************************************)
\* the last message was a BINDANY request as a relay sends it: complete
\* and naming the instance it came from
BindanyOfRelay ==
    /\ msg_last.n > 0
    /\ msg_last.who = "parent"
    /\ msg_last.imsg.type = "IMSG_BINDANY"
    /\ ~msg_last.imsg.short
    /\ msg_last.imsg.bnd.bnd_proc = msg_last.from

\* C21: every BINDANY request of a relay for TCP or UDP is answered by the
\* parent with exactly one BINDANY reply, written to the instance the
\* request names and carrying its bnd_id, with the bound socket when
\* bindany() succeeds and -1 when one of its calls fails; a request for
\* another protocol ends the parent without a reply
BindanyAnsweredOnce ==
    BindanyOfRelay =>
        LET bnd == msg_last.imsg.bnd
            r   == msg_last.r
        IN  IF bnd.bnd_proto \in {"IPPROTO_TCP", "IPPROTO_UDP"}
            THEN /\ r.ret = 0
                 /\ Len(r.log) = 1
                 /\ r.log[1].to = Relay(bnd.bnd_proc)
                 /\ r.log[1].type = "IMSG_BINDANY"
                 /\ r.log[1].data.bnd_id = bnd.bnd_id
                 /\ msg_last.with = "" => r.log[1].data.fd > -1
                 /\ msg_last.with # "" => r.log[1].data.fd = -1
            ELSE /\ r.ret = -1
                 /\ r.log = <<>>

\* a UDP request whose bind() failed was answered with -1
BindanyFailedAnswered ==
    /\ BindanyOfRelay
    /\ msg_last.imsg.bnd.bnd_proto = "IPPROTO_UDP"
    /\ msg_last.with = "bind"
    /\ Len(msg_last.r.log) = 1
    /\ msg_last.r.log[1].data.fd = -1

(***************************************************************************)
(* Reset scopes                                                            *)
(***************************************************************************)
\* C22: once the parent has taken a reset whose scope excludes RELAYS, its
\* configuration still holds the relays it held before, and of the other
\* categories it has lost only those of the scope
ResetKeepsUnscoped ==
    (/\ ps_state = "running"
     /\ round.kind = "reset"
     /\ sent # <<>>
     /\ sent[1].type = "IMSG_CTL_RESET"
     /\ "RELAYS" \notin sent[1].data) =>
        /\ env.relays = round.prev.relays
        /\ env = config_purge(round.prev, privsep_process, sent[1].data)

(***************************************************************************)
(* Payload sizes of the key-op RPC                                         *)
(***************************************************************************)
\* C23: a key-op request whose payload is not the header followed by
\* exactly cko_flen bytes ends the CA before the operation is performed
\* and before anything is written; a reply whose payload is not the header
\* followed by exactly cko_tlen bytes ends the relay before any byte is
\* copied
KeyopSizeMismatchFatal ==
    /\ (/\ msg_last.who = "ca"
         /\ \/ msg_last.imsg.short
            \/ Len(msg_last.imsg.data) # msg_last.imsg.cko.cko_flen) =>
            /\ msg_last.r.fatal
            /\ msg_last.r.res = 0
            /\ msg_last.r.out = <<>>
    /\ (/\ msg_last.who = "relay"
         /\ \/ msg_last.imsg.short
            \/ Len(msg_last.imsg.data) # msg_last.imsg.cko.cko_tlen) =>
            /\ msg_last.r.fatal # ""
            /\ msg_last.r.ret = 0
            /\ msg_last.r.to = <<>>

\* a reply of the awaited type that carries two bytes after a header
\* announcing one ended the relay in "data size"
ReplyTooLongFatal ==
    /\ msg_last.who = "relay"
    /\ msg_last.imsg.type = msg_last.with
    /\ ~msg_last.imsg.short
    /\ msg_last.imsg.cko.cko_tlen = 1
    /\ Len(msg_last.imsg.data) = 2
    /\ msg_last.r.fatal = "data size"

(***************************************************************************)
(* kv_delete                                                               *)
(***************************************************************************)
\* the keys reachable from a tree: those of its nodes and of their children
KvReachable(keys) ==
    { keys[j].kv_key : j \in 1 .. Len(keys) } \cup
    UNION { { keys[j].kv_children[c].kv_key :
                c \in 1 .. Len(keys[j].kv_children) } :
            j \in 1 .. Len(keys) }

\* C24: after kv_delete(keys, kv) no key of kv or of one of its children
\* is reachable from the tree, and the other nodes of the tree are there
\* as before, in their order, each with its children
KvDeleteRemovesSubtree ==
    kv_del.n > 0 =>
        LET old == kv_del.before
            i   == kv_del.kv
        IN  /\ \A k \in KvReachable(kv_tree) :
                  strcasecmp(k, old[i].kv_key) # 0
            /\ Len(kv_tree) = Len(old) - 1
            /\ \A j \in 1 .. Len(old) :
                  /\ j < i => kv_tree[j] = old[j]
                  /\ j > i => kv_tree[j - 1] = old[j]

\* a node with a child was deleted from a tree that held another node
KvDeletedWithChild ==
    /\ kv_del.n > 0
    /\ Len(kv_del.before) = 2
    /\ kv_del.before[kv_del.kv].kv_children # <<>>
    /\ Len(kv_tree) = 1

(***************************************************************************)
(* rule_add: the flags of the kv patterns                                  *)
(***************************************************************************)
\* C25: in every rule that rule_add has put on the list, each populated kv
\* pattern has KV_FLAG_GLOBBING exactly when its key holds "*", "?" or "["
\* and KV_FLAG_MACRO exactly when its value holds "$"
RuleFlagsFollowKeys ==
    \A i \in 1 .. Len(rule_list) :
    \A t \in KeyTypes :
        LET kv == rule_list[i].rule_kv[t] IN
        kv.kv_type = t =>
            /\ "KV_FLAG_GLOBBING" \in kv.kv_flags <=>
                  (kv.kv_key # KvNull /\ HasByte(kv.kv_key, GlobMeta))
            /\ "KV_FLAG_MACRO" \in kv.kv_flags <=>
                  (kv.kv_value # KvNull /\ HasByte(kv.kv_value, {36}))

(***************************************************************************)
(* Completion of a reload                                                  *)
(***************************************************************************)
\* C26: whenever a configuration round is pending in the running parent,
\* with every worker there to acknowledge CFG_DONE, the counter of pending
\* acknowledgements eventually returns to 0 (and with it CTL_START is
\* broadcast and reloads are accepted again), also when parent_configure
\* failed part-way
ReloadCompletes ==
    (ps_state = "running" /\ sc_reload > 0)
        ~> (sc_reload = 0 \/ ps_state # "running" \/ Dead # {})

(***************************************************************************)
(* The counter of pending acknowledgements                                 *)
(***************************************************************************)
\* C27: the counter of pending acknowledgements is never below 0 nor above
\* 2 + 2 * (number of relay instances), and an IMSG_CFG_DONE the parent
\* takes while the counter is 0 is ignored: the counter stays 0, nothing is
\* sent and the parent goes on
ReloadPendingBounded ==
    /\ sc_reload \in 0 .. (2 + (2 * sc_prefork_relay))
    /\ (msg_last.who = "done" /\ msg_last.at = 0) =>
          /\ msg_last.r.ret = 0
          /\ msg_last.r.sc_reload = 0
          /\ msg_last.r.log = <<>>
          /\ sc_reload = 0

\* an acknowledgement was taken after the round had finished
AckAfterFinished ==
    /\ msg_last.who = "done"
    /\ msg_last.at = 0
    /\ env # EmptyConf

(***************************************************************************)
(* Key operations while the configuration is reloaded                      *)
(***************************************************************************)
\* C28: while a reload is under way, a key-op request of a launched relay
\* for a key id its running configuration defines never makes the CA
\* terminate for want of the key, whatever the CA has taken so far of the
\* parent's CTL_RESET, CFG_RELAY, CFG_DONE and CTL_START (the CTL_RESET of
\* the reload it has taken)
KeyopServedDuringReload ==
    [][(/\ ca_last' # ca_last
        /\ round.kind = "reload"
        /\ \A k \in 1 .. Len(chan_pw[Ca(ca_last'.ca)]) :
              chan_pw[Ca(ca_last'.ca)][k].type # "IMSG_CTL_RESET"
        /\ rl_env[ca_last'.req.cko.cko_proc].launched
        /\ \E rsa \in Handles(rl_env[ca_last'.req.cko.cko_proc]) :
              rsa.ex_data = <<ca_last'.req.cko.cko_id>>)
       => ~(ca_last'.fatal /\ ~ca_last'.found)]_vars

InstanceIndexChecked ==
    /\ (/\ msg_last.who = "ca"
        /\ msg_last.imsg.cko.cko_proc \notin Relays)
       => (msg_last.r.fatal /\ msg_last.r.out = <<>>)
    /\ (/\ msg_last.who = "parent"
        /\ msg_last.imsg.bnd.bnd_proc \notin Relays)
       => (msg_last.r.ret = -1 /\ msg_last.r.log = <<>>)

(***************************************************************************)
(* The types a dispatcher takes                                            *)
(***************************************************************************)
\* C31: a message from HCE, a relay or a CA never makes the parent reload,
\* reset or shut down: CTL_RESET, CTL_RELOAD and CTL_SHUTDOWN from them are
\* rejected (-1) with the parent's configuration and the counter of pending
\* acknowledgements as they were and nothing sent; the CA rejects from the
\* parent every type but CFG_RELAY, CFG_DONE, CTL_START and CTL_RESET, and
\* from a relay every type but CA_PRIVENC and CA_PRIVDEC
OnlyPfeControls ==
    /\ (msg_last.who = "parent_any" /\ msg_last.with # "PROC_PFE") =>
          /\ ~msg_last.r.shutdown
          /\ ~msg_last.r.called
          /\ msg_last.imsg.type \in {"IMSG_CTL_RESET", "IMSG_CTL_RELOAD",
                                     "IMSG_CTL_SHUTDOWN"} =>
                /\ msg_last.r.ret = -1
                /\ msg_last.r.env = msg_last.r.before
                /\ msg_last.r.sc_reload = msg_last.at
                /\ msg_last.r.log = <<>>
    /\ (/\ msg_last.who = "ca_parent"
        /\ msg_last.imsg.type \notin {"IMSG_CFG_RELAY", "IMSG_CFG_DONE",
                                      "IMSG_CTL_START", "IMSG_CTL_RESET"}) =>
          /\ msg_last.r.ret = -1
          /\ msg_last.r.cenv = msg_last.r.before
    /\ (/\ msg_last.who = "ca_relay"
        /\ msg_last.imsg.type \notin KeyopCmds) =>
          /\ msg_last.r.ret = -1
          /\ msg_last.r.out = <<>>

\* a CA sent IMSG_CTL_SHUTDOWN to a parent that waits for acknowledgements
\* and was rejected
ShutdownFromCaRejected ==
    /\ msg_last.who = "parent_any"
    /\ msg_last.with = "PROC_CA"
    /\ msg_last.imsg.type = "IMSG_CTL_SHUTDOWN"
    /\ msg_last.at = 2
    /\ msg_last.r.ret = -1

(***************************************************************************)
(* Rules bound to tables                                                   *)
(***************************************************************************)
\* C32: once rule_settable has been called for each table of the relay, in
\* any order, every rule that names one of those tables (the table's name
\* up to the first ':') is bound to it, and every rule with no table name,
\* or a name that no table has, is bound to none
RulesBoundByName ==
    (\A rlt \in RelayTables : rlt.rlt_id \in SettableDone) =>
        \A i \in 1 .. Len(rule_list) :
            LET named == { rlt \in RelayTables :
                             /\ rlt.rlt_table # NullTable
                             /\ rule_list[i].rule_tablename # <<>>
                             /\ SubSeq(rlt.rlt_table.conf.name, 1,
                                    strcspn_colon(rlt.rlt_table.conf.name))
                                  = rule_list[i].rule_tablename }
            IN  /\ \A rlt \in named : rule_list[i].rule_table = rlt.rlt_id
                /\ named = {} => rule_list[i].rule_table = 0

(***************************************************************************)
(* rule_add                                                                *)
(***************************************************************************)
\* C33: rule_add is all or nothing.  When it returned -1, also after a
\* failure part-way through a rule file, the rule list of the protocol is
\* as it was before the call; when it returned 0 with a rule file, the list
\* gained one rule per line that is neither empty nor a comment, in the
\* order of the file, each with the populated keys of the template replaced
\* by its line, and the template has been freed
RuleAddAllOrNothing ==
    msg_last.who = "rule_add" =>
        LET c     == msg_last.r
            lines == KeyLineSeq(c.file)
            n     == Len(c.before)
        IN  /\ c.ret = -1 => rule_list = c.before
            /\ (c.ret = 0 /\ c.file.given) =>
                  /\ Len(rule_list) = n + Len(lines)
                  /\ SubSeq(rule_list, 1, n) = c.before
                  /\ \A k \in 1 .. Len(lines) : \A t \in KeyTypes :
                        IF c.rule.rule_kv[t].kv_type = t
                        THEN rule_list[n + k].rule_kv[t].kv_key = lines[k]
                        ELSE rule_list[n + k].rule_kv[t] = NoKv
                  /\ c.freed

\* C34: rule_add returns -1 and appends nothing for every rule that has a
\* populated query, path or url key and a direction other than request
RuleAddRequestOnly ==
    (/\ msg_last.who = "rule_add"
     /\ msg_last.r.rule.rule_dir # "RELAY_DIR_REQUEST"
     /\ \E t \in {"KEY_TYPE_QUERY", "KEY_TYPE_PATH", "KEY_TYPE_URL"} :
           msg_last.r.rule.rule_kv[t].kv_type = t)
    => /\ msg_last.r.ret = -1
       /\ rule_list = msg_last.r.before

\* a response rule with a path key was handed to rule_add without a rule
\* file and with rules already in the list
PathResponseRefused ==
    /\ msg_last.who = "rule_add"
    /\ msg_last.r.rule.rule_dir = "RELAY_DIR_RESPONSE"
    /\ msg_last.r.rule.rule_kv["KEY_TYPE_PATH"].kv_type = "KEY_TYPE_PATH"
    /\ ~msg_last.r.file.given
    /\ msg_last.r.before # <<>>
    /\ msg_last.r.ret = -1

(***************************************************************************)
(* kv_add, kv_set, kv_delete: the shape of the tree                        *)
(***************************************************************************)
\* C35: after any sequence of kv_add, kv_set and kv_delete the tree holds
\* at most one node per key, the case of letters ignored; a kv_add whose
\* key equals, the case ignored, the key of a node of the tree put the new
\* entry at the end of that node's children with that node as its parent;
\* a kv_set on a node replaced its value and left it without children
KvTreeShape ==
    /\ \A i, j \in 1 .. Len(kv_tree) :
          i # j => kv_cmp(kv_tree[i], kv_tree[j]) # 0
    /\ msg_last.who = "kv_add" =>
          LET c == msg_last.r IN
          \A i \in 1 .. Len(c.before) :
             strcasecmp(c.before[i].kv_key, c.key) = 0 =>
                /\ Len(kv_tree) = Len(c.before)
                /\ \A j \in 1 .. Len(kv_tree) :
                      j # i => kv_tree[j] = c.before[j]
                /\ kv_tree[i].kv_key = c.before[i].kv_key
                /\ kv_tree[i].kv_value = c.before[i].kv_value
                /\ kv_tree[i].kv_children =
                      c.before[i].kv_children
                      \o << [kv_key |-> c.key, kv_value |-> c.value] >>
                /\ c.kv = <<i, Len(kv_tree[i].kv_children)>>
                /\ c.kv_parent = i
    /\ (msg_last.who = "kv_set" /\ msg_last.r.ret = 0) =>
          LET c == msg_last.r
              i == msg_last.at
          IN  /\ Len(kv_tree) = Len(c.before)
              /\ kv_tree[i].kv_value = c.value
              /\ kv_tree[i].kv_children = <<>>
              /\ kv_tree[i].kv_key = c.before[i].kv_key
              /\ \A j \in 1 .. Len(kv_tree) :
                    j # i => kv_tree[j] = c.before[j]

\* kv_set gave a new value to a node that had a child, added under its
\* key in the other case, in a tree with another node
KvSetDroppedChildren ==
    /\ msg_last.who = "kv_set"
    /\ msg_last.r.ret = 0
    /\ Len(kv_tree) = 2
    /\ Len(msg_last.r.before[msg_last.at].kv_children) = 1
    /\ msg_last.r.before[msg_last.at].kv_children[1].kv_key
         # msg_last.r.before[msg_last.at].kv_key
    /\ msg_last.r.before[msg_last.at].kv_value # msg_last.r.value
    /\ kv_tree[msg_last.at].kv_children = <<>>

====
